---- MODULE Spec2Model ----
(***************************************************************************)
(* A model of the OpenTime export plugin: the folder exporter              *)
(* (ElysiumExporter), the plugin's export flow (main.ts), the identity      *)
(* generator, the checkbox parser and the item reader's serializer.         *)
(*                                                                          *)
(* Strings are sequences of one-character strings, so that the code's       *)
(* regular expressions and replacements are computed character by           *)
(* character.  A JavaScript value is a record tagged by its field t.        *)
(***************************************************************************)
EXTENDS Integers, Sequences, FiniteSets, TLC

VARIABLES
    dirs,      \* the directories that exist on disk (normalized paths)
    files,     \* the files on disk: full path -> content
    plist,     \* the companion app's preference store (defaults domain)
    pending,   \* the exportItems call awaiting readElysiumPreferences, or NoCall
    last,      \* the most recent finished exporter call: arguments, locals, result
    now,       \* Date.now()
    vault,     \* the text of the vault's markdown note, as its sequence of lines
    autoExport,\* settings.autoExport
    runs,      \* the plugin's export operations in flight (exportAll / exportFile)
    history,   \* per finished export run: what it parsed and what it left on disk
    rt,        \* the serializer round trip: the document, its text, the decoded
               \* document and its text
    fn,        \* the call of a parser or of a naming function under study:
               \* its arguments and what it returned
    modal,     \* the create modal: its form fields, the settings and the file
               \* it was constructed with, and whether it is open
    editor     \* the text the create modal inserted in the active note

vars == <<dirs, files, plist, pending, last, now, vault, autoExport, runs, history, rt, fn,
                   modal, editor>>

(***************************************************************************)
(* Bounds of the model.                                                     *)
(***************************************************************************)
MaxNew == 2        \* longest item list handed to exportItems
MaxPrior == 2      \* longest item list the companion app writes
MaxClock == 2      \* the clock stops ticking here
MaxRuns == 2       \* export runs started in one behaviour
MaxLines == 1      \* lines of the vault's note
MaxTitle == 3      \* longest tail of a title handed to a naming function
MaxTokens == 3     \* words, tags and markers in the content of a checkbox line
MaxNoteLines == 2  \* lines of a note handed to a parser

(***************************************************************************)
(* JavaScript values.                                                       *)
(***************************************************************************)
Undef == [t |-> "undefined"]
Null == [t |-> "null"]
Str(s) == [t |-> "str", v |-> s]
Num(n) == [t |-> "num", v |-> n]
Bool(b) == [t |-> "bool", v |-> b]
Obj(f) == [t |-> "map", f |-> f]
Arr(e) == [t |-> "seq", e |-> e]
Date(s) == [t |-> "date", v |-> s]

\* JavaScript truthiness: undefined, null, "", 0 and false are falsy.
Truthy(v) ==
    /\ v.t \notin {"undefined", "null"}
    /\ v # Str(<<>>)
    /\ v # Num(0)
    /\ v # Bool(FALSE)

\* Property read v.k of a value that is neither null nor undefined.
GetProp(v, k) ==
    IF v.t = "map" /\ k \in DOMAIN v.f THEN v.f[k] ELSE Undef

\* Reading a property of null or undefined throws a TypeError.
ThrowsOnRead(v) == v.t \in {"undefined", "null"}

\* for (const x of v): arrays and strings are iterable, the rest throw.
IsIterable(v) == v.t \in {"seq", "str"}

Elements(v) ==
    IF v.t = "seq" THEN v.e
    ELSE IF v.t = "str" THEN [i \in 1..Len(v.v) |-> Str(<<v.v[i]>>)]
    ELSE <<>>

(***************************************************************************)
(* Characters and strings.                                                  *)
(***************************************************************************)
LowerSeq == <<"a","b","c","d","e","f","g","h","i","j","k","l","m",
              "n","o","p","q","r","s","t","u","v","w","x","y","z">>
UpperSeq == <<"A","B","C","D","E","F","G","H","I","J","K","L","M",
              "N","O","P","Q","R","S","T","U","V","W","X","Y","Z">>
DigitSeq == <<"0","1","2","3","4","5","6","7","8","9">>
Range(s) == {s[i] : i \in DOMAIN s}
LowerAlpha == Range(LowerSeq)
UpperAlpha == Range(UpperSeq)
Digits == Range(DigitSeq)
\* \s of a JavaScript regular expression (the characters of it the model uses)
WhiteSpace == {" ", "\t", "\n", "\r"}

\* String.prototype.toLowerCase, one character
LowerChar(c) ==
    IF c \in UpperAlpha
    THEN LowerSeq[CHOOSE i \in DOMAIN UpperSeq : UpperSeq[i] = c]
    ELSE c

toLowerCase(s) == [i \in DOMAIN s |-> LowerChar(s[i])]

\* s.replace(/[bad]/g, ''): s without its characters that are in bad
RECURSIVE Without(_, _)
Without(s, bad) ==
    IF s = <<>> THEN <<>>
    ELSE IF Head(s) \in bad THEN Without(Tail(s), bad)
    ELSE <<Head(s)>> \o Without(Tail(s), bad)

\* s.replace(/[cls]+/g, r): every maximal run of characters of cls becomes r
RECURSIVE ReplaceRuns(_, _, _)
ReplaceRuns(s, cls, r) ==
    IF s = <<>> THEN <<>>
    ELSE IF Head(s) \in cls
         THEN IF Len(s) > 1 /\ s[2] \in cls
              THEN ReplaceRuns(Tail(s), cls, r)
              ELSE r \o ReplaceRuns(Tail(s), cls, r)
         ELSE <<Head(s)>> \o ReplaceRuns(Tail(s), cls, r)

\* the number of leading (trailing) characters of s that are in cls
RECURSIVE LeadCount(_, _)
LeadCount(s, cls) ==
    IF s # <<>> /\ Head(s) \in cls THEN 1 + LeadCount(Tail(s), cls) ELSE 0

RECURSIVE TrailCount(_, _)
TrailCount(s, cls) ==
    IF s # <<>> /\ s[Len(s)] \in cls
    THEN 1 + TrailCount(SubSeq(s, 1, Len(s) - 1), cls) ELSE 0

\* s.replace(/^[cls]+/, ''), s.replace(/[cls]+$/, '')
StripLead(s, cls) == SubSeq(s, LeadCount(s, cls) + 1, Len(s))
StripTrail(s, cls) == SubSeq(s, 1, Len(s) - TrailCount(s, cls))

\* String.prototype.trim
trim(s) == StripTrail(StripLead(s, WhiteSpace), WhiteSpace)

\* s.substring(0, n)
substring0(s, n) == SubSeq(s, 1, IF Len(s) < n THEN Len(s) ELSE n)

\* Number.prototype.toString(36) and toString(10) of a natural number
Digit36 == DigitSeq \o LowerSeq

RECURSIVE toString36(_)
toString36(n) ==
    IF n < 36 THEN <<Digit36[n + 1]>>
    ELSE toString36(n \div 36) \o <<Digit36[(n % 36) + 1]>>

RECURSIVE toString10(_)
toString10(n) ==
    IF n < 10 THEN <<DigitSeq[n + 1]>>
    ELSE toString10(n \div 10) \o <<DigitSeq[(n % 10) + 1]>>

\* new Date().toISOString(): the instant, rendered as text
toISOString(n) == <<"T">> \o toString10(n)

(***************************************************************************)
(* The file system and the file contents.                                   *)
(*                                                                          *)
(* A file's content is either text that js-yaml cannot parse, or the value  *)
(* js-yaml decodes it to.                                                   *)
(***************************************************************************)
Garbage == [kind |-> "garbage"]
Yaml(doc) == [kind |-> "yaml", doc |-> doc]
EmptyFile == Yaml(Undef)

DotOt == <<".", "o", "t">>

\* elysiumFolderPath.replace(/\/$/, '')
normalizePath(p) ==
    IF p # <<>> /\ p[Len(p)] = "/" THEN SubSeq(p, 1, Len(p) - 1) ELSE p

\* `${normalizedPath}/${filename}`: a path is the pair of its folder and name
FullPath(normalizedPath, name) == <<normalizedPath, name>>

\* fs.existsSync
existsSync(fsFiles, path) == path \in DOMAIN fsFiles

\* yaml.load throws on text it cannot parse
yamlLoadThrows(content) == content.kind = "garbage"
yamlLoad(content) == content.doc

(***************************************************************************)
(* ElysiumExporter.exportSingleFile                                         *)
(***************************************************************************)
ItemId(item) == GetProp(item, "id")

\* MapSet with the bug of keeping the value a key already holds
MapSet_KeepFirst(m, item) ==
    IF \E i \in 1..Len(m) : ItemId(m[i]) = ItemId(item) THEN m ELSE Append(m, item)

\* MapSet with the bug of a list push instead of a keyed set
MapSet_Push(m, item) == Append(m, item)

\* itemMap.set(item.id, item): a Map keeps insertion order, and setting a key
\* it holds replaces the value in place.  The map is kept as its values().
MapSet(m, item) ==
    LET hit == {i \in 1..Len(m) : ItemId(m[i]) = ItemId(item)}
    IN  IF hit = {} THEN Append(m, item)
        ELSE [i \in 1..Len(m) |-> IF i \in hit THEN item ELSE m[i]]

RECURSIVE MapSetAll(_, _)
MapSetAll(m, list) ==
    IF list = <<>> THEN m ELSE MapSetAll(MapSet(m, Head(list)), Tail(list))

\* MergeItems with the bug of starting from an empty map
MergeItems_NewOnly(existingItems, items) == MapSetAll(<<>>, items)

\* MergeItems with the bug of rebuilding each existing item from the fields
\* of the grammar
MergeItems_Typed(existingItems, items) ==
    MapSetAll(MapSetAll(<<>>,
                  [i \in DOMAIN Elements(existingItems) |->
                      LET e == Elements(existingItems)[i]
                      IN  IF e.t = "map"
                          THEN Obj([k \in (DOMAIN e.f) \cap
                                       {"type", "id", "title", "status"} |-> e.f[k]])
                          ELSE e]),
              items)

\* The two loops of the merge: existing items first, then the new ones.
MergeItems(existingItems, items) ==
    MapSetAll(MapSetAll(<<>>, Elements(existingItems)), items)

\* The first loop throws a TypeError when existingItems is not iterable or
\* when one of its entries is null (item.id of null).
MergeThrows(existingItems) ==
    \/ ~IsIterable(existingItems)
    \/ \E i \in DOMAIN Elements(existingItems) :
           ThrowsOnRead(Elements(existingItems)[i])

\* if (existingDoc && existingDoc.items) existingItems = existingDoc.items
ExistingItemsOf(existingDoc) ==
    IF Truthy(existingDoc) /\ Truthy(GetProp(existingDoc, "items"))
    THEN GetProp(existingDoc, "items")
    ELSE Arr(<<>>)

PluginVersion == <<"1", ".", "0", ".", "0">>
\* `Obsidian OpenTime Export ${this.pluginVersion}`
GeneratedBy == <<"O", "b", "s", "i", "d", "i", "a", "n", " ", "O", "p", "e", "n",
                 "T", "i", "m", "e", " ", "E", "x", "p", "o", "r", "t", " ">>

NewDocument(timezone, clock, items) ==
    Obj([opentime_version |-> Str(<<"0", ".", "2">>),
         default_timezone |-> Str(timezone),
         generated_by |-> Str(GeneratedBy \o PluginVersion),
         created_at |-> Str(toISOString(clock)),
         items |-> Arr(items)])

(***************************************************************************)
(* OpenTimeExporter.export: the canonical text of a document.  Per item it  *)
(* emits the fields of the grammar, in its fixed order, and the x_*         *)
(* extensions; a key the grammar does not know has no place in the text.    *)
(***************************************************************************)
GrammarKeys == {"type", "id", "title", "kind", "status", "due", "scheduled_start",
                "priority", "start", "end", "time", "tags", "notes",
                "x_obsidian", "x_elysium"}
ExtensionKeys == {"x_custom"}

Restrict(f, keys) == [k \in (DOMAIN f) \cap keys |-> f[k]]

EmitItem(item) ==
    IF item.t = "map"
    THEN Obj(Restrict(item.f, GrammarKeys \cup ExtensionKeys))
    ELSE Obj(<<>>)

OpenTimeExporter_export(document) ==
    Yaml(Obj([document.f EXCEPT
        !.items = Arr([i \in DOMAIN document.f.items.e |->
                          EmitItem(document.f.items.e[i])])]))

(***************************************************************************)
(* exportSingleFile(items, elysiumFolderPath, timezone, filename), run on   *)
(* the file system fs = [dirs, files], at instant fs.clock, with the        *)
(* environment's fault fs.fault: which call of the run, if any, fails.      *)
(* The result holds the return value, the file system it leaves, the fs     *)
(* calls it made in order, and its locals existingItems and document.       *)
(***************************************************************************)
Faults == {"none", "nofs", "mkdir", "read", "serialize", "write", "partial"}

NoDocument == [t |-> "none"]

\* failed: the steps of the run that threw; raised: the call itself threw
Outcome(ret, d, f, io, existingItems, document, failed) ==
    [ret |-> ret, dirs |-> d, files |-> f, io |-> io,
     existingItems |-> existingItems, document |-> document,
     failed |-> failed, raised |-> FALSE, rets |-> <<>>]

\* FilesOnThrow with the bug of a catch block that clears the destination
FilesOnThrow_Cleared(fsFiles, fullPath) == (fullPath :> EmptyFile) @@ fsFiles

\* The outer catch logs, notifies and returns false: the files stay as the
\* statements before the throw left them.
FilesOnThrow(fsFiles, fullPath) == fsFiles

exportSingleFile(items, elysiumFolderPath, timezone, filename, fs) ==
    LET normalizedPath == normalizePath(elysiumFolderPath)
        fullPath == FullPath(normalizedPath, filename \o DotOt)
        dirMissing == normalizedPath \notin fs.dirs
        io1 == IF dirMissing THEN <<"existsSync", "mkdirSync">>
               ELSE <<"existsSync">>
        dirs1 == fs.dirs \cup {normalizedPath}
        fileExists == existsSync(fs.files, fullPath)
        decodeThrows ==
            fileExists /\ (fs.fault = "read" \/ yamlLoadThrows(fs.files[fullPath]))
        io2 == io1 \o (IF fileExists THEN <<"existsSync", "readFileSync">>
                       ELSE <<"existsSync">>)
        existingItems ==
            IF ~fileExists \/ decodeThrows
            THEN Arr(<<>>)
            ELSE ExistingItemsOf(yamlLoad(fs.files[fullPath]))
        caught == IF decodeThrows THEN {"decode"} ELSE {}
        document == NewDocument(timezone, fs.clock,
                                MergeItems(existingItems, items))
        yamlContent == OpenTimeExporter_export(document)
        io3 == io2 \o <<"writeFileSync">>
    IN  IF fs.fault = "nofs"
        THEN Outcome(FALSE, fs.dirs, fs.files, <<>>, Arr(<<>>), NoDocument,
                     {"getFs"})
        ELSE IF dirMissing /\ fs.fault = "mkdir"
        THEN Outcome(FALSE, fs.dirs, FilesOnThrow(fs.files, fullPath), io1,
                     Arr(<<>>), NoDocument, {"mkdir"})
        ELSE IF MergeThrows(existingItems)
        THEN Outcome(FALSE, dirs1, FilesOnThrow(fs.files, fullPath), io2,
                     existingItems, NoDocument, caught \cup {"merge"})
        ELSE IF fs.fault = "serialize"
        THEN Outcome(FALSE, dirs1, FilesOnThrow(fs.files, fullPath), io2,
                     existingItems, document, caught \cup {"serialize"})
        ELSE IF fs.fault = "write"
        THEN Outcome(FALSE, dirs1, FilesOnThrow(fs.files, fullPath), io3,
                     existingItems, document, caught \cup {"write"})
        ELSE IF fs.fault = "partial"
        THEN Outcome(FALSE, dirs1, (fullPath :> EmptyFile) @@ fs.files,
                     io3, existingItems, document, caught \cup {"write"})
        ELSE Outcome(TRUE, dirs1, (fullPath :> yamlContent) @@ fs.files,
                     io3, existingItems, document, caught)

(***************************************************************************)
(* ElysiumExporter.sanitizedFilename, exportDocument, exportItem,           *)
(* exportPerItem                                                            *)
(***************************************************************************)
SafeChars == LowerAlpha \cup Digits \cup {"-"}
MaxFilenameLen == 50
ElysiumPrefix == <<"e", "l", "y", "s", "i", "u", "m", "-">>
Untitled == <<"u", "n", "t", "i", "t", "l", "e", "d">>

\* s.replace(/[^good]/g, '')
Keep(s, good) == Without(s, Range(s) \ good)

\* Truncate with the bug of keeping the hyphen the cut may end on
Truncate_Keep(s) == substring0(s, MaxFilenameLen)

\* sanitized.substring(0, 50).replace(/-+$/, '')
Truncate(s) == StripTrail(substring0(s, MaxFilenameLen), {"-"})

sanitizedFilename(title, type) ==
    LET lowered == trim(toLowerCase(title))
        hyphened == ReplaceRuns(lowered, WhiteSpace \cup {"_"}, <<"-">>)
        stripped == Keep(hyphened, SafeChars)
        collapsed == ReplaceRuns(stripped, {"-"}, <<"-">>)
        trimmed == StripTrail(StripLead(collapsed, {"-"}), {"-"})
        limited == IF Len(trimmed) > MaxFilenameLen
                   THEN Truncate(trimmed)
                   ELSE trimmed
        sanitized == IF limited = <<>> THEN Untitled ELSE limited
    IN  ElysiumPrefix \o toLowerCase(type) \o <<"-">> \o sanitized \o DotOt

\* FolderConfigured with the bug of a missing folder check
FolderConfigured_Always(elysiumFolderPath) == TRUE

\* !elysiumFolderPath is false
FolderConfigured(elysiumFolderPath) == elysiumFolderPath # <<>>

\* CatchError with the bug of a catch block that throws the error again
CatchError_Rethrow(o) == [o EXCEPT !.raised = TRUE]

\* catch (error) { console.error(...); new Notice(...); return false; }
CatchError(o) == [o EXCEPT !.ret = FALSE]

exportDocument(document, elysiumFolderPath, filename, fs) ==
    LET normalizedPath == normalizePath(elysiumFolderPath)
        fullPath == FullPath(normalizedPath, filename)
        yamlContent == OpenTimeExporter_export(document)
        dirMissing == normalizedPath \notin fs.dirs
        io1 == IF dirMissing THEN <<"existsSync", "mkdirSync">>
               ELSE <<"existsSync">>
        dirs1 == fs.dirs \cup {normalizedPath}
        io2 == io1 \o <<"writeFileSync">>
    IN  IF ~FolderConfigured(elysiumFolderPath)
        THEN Outcome(FALSE, fs.dirs, fs.files, <<>>, Arr(<<>>), document, {})
        ELSE IF fs.fault = "serialize"
        THEN CatchError(Outcome(FALSE, fs.dirs, fs.files, <<>>, Arr(<<>>),
                                document, {"serialize"}))
        ELSE IF fs.fault = "nofs"
        THEN Outcome(FALSE, fs.dirs, fs.files, <<>>, Arr(<<>>), document,
                     {"getFs"})
        ELSE IF dirMissing /\ fs.fault = "mkdir"
        THEN CatchError(Outcome(FALSE, fs.dirs, fs.files, io1, Arr(<<>>),
                                document, {"mkdir"}))
        ELSE IF fs.fault = "write"
        THEN CatchError(Outcome(FALSE, dirs1, fs.files, io2, Arr(<<>>),
                                document, {"write"}))
        ELSE IF fs.fault = "partial"
        THEN CatchError(Outcome(FALSE, dirs1,
                                (fullPath :> EmptyFile) @@ fs.files,
                                io2, Arr(<<>>), document, {"write"}))
        ELSE Outcome(TRUE, dirs1, (fullPath :> yamlContent) @@ fs.files,
                     io2, Arr(<<>>), document, {})

\* item.title.toLowerCase() and type.toLowerCase() throw on a non-string, and
\* exportItem has no try around sanitizedFilename.
exportItem(item, elysiumFolderPath, timezone, fs) ==
    LET document == NewDocument(timezone, fs.clock, <<item>>)
        title == GetProp(item, "title")
        type == GetProp(item, "type")
    IN  IF title.t # "str" \/ type.t # "str"
        THEN [Outcome(FALSE, fs.dirs, fs.files, <<>>, Arr(<<>>), document,
                      {"sanitizedFilename"}) EXCEPT !.raised = TRUE]
        ELSE exportDocument(document, elysiumFolderPath,
                            sanitizedFilename(title.v, type.v), fs)

\* The loop of exportPerItem: acc is the file system so far and the result
\* of each exportItem; the loop ends when exportItem throws.
RECURSIVE PerItemLoop(_, _, _, _, _)
PerItemLoop(items, elysiumFolderPath, timezone, faults, acc) ==
    IF Len(acc.rets) = Len(items) \/ acc.raised THEN acc
    ELSE LET i == Len(acc.rets) + 1
             o == exportItem(items[i], elysiumFolderPath, timezone,
                             [dirs |-> acc.dirs, files |-> acc.files,
                              clock |-> acc.clock, fault |-> faults[i]])
         IN  PerItemLoop(items, elysiumFolderPath, timezone, faults,
                 [dirs |-> o.dirs, files |-> o.files, clock |-> acc.clock,
                  io |-> acc.io \o o.io, rets |-> Append(acc.rets, o.ret),
                  failed |-> acc.failed \cup o.failed, raised |-> o.raised])

\* SuccessCount with the bug of counting every attempt as a success
SuccessCount_All(rets) == Len(rets)

\* successCount after the loop: the exports that returned true
SuccessCount(rets) == Cardinality({i \in DOMAIN rets : rets[i]})

\* fs.fault is here the sequence of the faults of the items' exports
exportPerItem(items, elysiumFolderPath, timezone, fs) ==
    LET acc == PerItemLoop(items, elysiumFolderPath, timezone, fs.fault,
                   [dirs |-> fs.dirs, files |-> fs.files, clock |-> fs.clock,
                    io |-> <<>>, rets |-> <<>>, failed |-> {}, raised |-> FALSE])
        successCount == SuccessCount(acc.rets)
    IN  [ret |-> ~acc.raised /\ (successCount = Len(items) \/ successCount > 0),
         dirs |-> acc.dirs, files |-> acc.files, io |-> acc.io,
         existingItems |-> Arr(<<>>), document |-> NoDocument,
         failed |-> acc.failed, raised |-> acc.raised, rets |-> acc.rets]

\* checkFolderAccess: the whole body is inside the try; a folder that exists
\* is probed with accessSync, a missing one is created.
checkFolderAccess(elysiumFolderPath, fs) ==
    LET folderExists == normalizePath(elysiumFolderPath) \in fs.dirs
        dirs1 == fs.dirs \cup {normalizePath(elysiumFolderPath)}
    IN  IF fs.fault = "nofs"
        THEN Outcome(FALSE, fs.dirs, fs.files, <<>>, Arr(<<>>), NoDocument,
                     {"getFs"})
        ELSE IF ~FolderConfigured(elysiumFolderPath)
        THEN Outcome(FALSE, fs.dirs, fs.files, <<>>, Arr(<<>>), NoDocument, {})
        ELSE IF folderExists /\ fs.fault = "access"
        THEN CatchError(Outcome(FALSE, fs.dirs, fs.files,
                                <<"existsSync", "accessSync">>, Arr(<<>>),
                                NoDocument, {"access"}))
        ELSE IF folderExists
        THEN Outcome(TRUE, fs.dirs, fs.files, <<"existsSync", "accessSync">>,
                     Arr(<<>>), NoDocument, {})
        ELSE IF fs.fault = "mkdir"
        THEN CatchError(Outcome(FALSE, fs.dirs, fs.files,
                                <<"existsSync", "mkdirSync">>, Arr(<<>>),
                                NoDocument, {"mkdir"}))
        ELSE Outcome(TRUE, dirs1, fs.files, <<"existsSync", "mkdirSync">>,
                     Arr(<<>>), NoDocument, {})

(***************************************************************************)
(* readElysiumPreferences: the three keys of the companion app's defaults   *)
(* domain; `defaults read` fails on a key that is absent.                   *)
(***************************************************************************)
DefaultFilename == <<"e", "l", "y", "s", "i", "u", "m", "-",
                     "s", "c", "h", "e", "d", "u", "l", "e">>
PerItemText == <<"P", "e", "r", " ", "I", "t", "e", "m">>
SingleFileText == <<"S", "i", "n", "g", "l", "e", " ", "F", "i", "l", "e">>

\* readElysiumPreferences with the bug of comparing the untrimmed output of
\* `defaults read`
readElysiumPreferences_Untrimmed(pl) ==
    [exportMode |->
        IF "exportMode" \in DOMAIN pl /\ pl.exportMode = PerItemText
        THEN "per-item" ELSE "single",
     singleFilename |->
        IF "filename" \in DOMAIN pl /\ trim(pl.filename) # <<>>
        THEN trim(pl.filename) ELSE DefaultFilename,
     folderPath |->
        IF "customPath" \in DOMAIN pl /\ trim(pl.customPath) # <<>>
        THEN Str(trim(pl.customPath)) ELSE Undef]

readElysiumPreferences(pl) ==
    [exportMode |->
        IF "exportMode" \in DOMAIN pl /\ trim(pl.exportMode) = PerItemText
        THEN "per-item" ELSE "single",
     singleFilename |->
        IF "filename" \in DOMAIN pl /\ trim(pl.filename) # <<>>
        THEN trim(pl.filename) ELSE DefaultFilename,
     folderPath |->
        IF "customPath" \in DOMAIN pl /\ trim(pl.customPath) # <<>>
        THEN Str(trim(pl.customPath)) ELSE Undef]

(***************************************************************************)
(* The inputs of the model.                                                 *)
(***************************************************************************)
SeqsUpTo(S, n) == UNION {[1..k -> S] : k \in 0..n}

FolderE == <<"/", "e">>
Folders == {<<>>, FolderE, FolderE \o <<"/">>}
Timezone == <<"U", "T", "C">>
TaskType == <<"t", "a", "s", "k">>

Item(id, title) ==
    Obj([type |-> Str(TaskType), id |-> Str(id), title |-> Str(title),
         status |-> Str(<<"t", "o", "d", "o">>)])
WithKey(item, k, v) == Obj((k :> v) @@ item.f)

\* The items a caller hands to exportItems / exportItem.
NewA1 == Item(<<"a">>, <<"N", "e", "w", " ", "1">>)
NewA2 == Item(<<"a">>, <<"n", "e", "w", "_", "2">>)
NewB == Item(<<"b">>, <<"N", "e", "w", " ", "1">>)
NewPool == {NewA1, NewA2, NewB}

\* The items the companion app writes: with an extension of its own, with a
\* key the grammar does not know, and two of them with one id.
PriorA1 == WithKey(Item(<<"a">>, <<"o", "l", "d">>), "x_custom", Str(<<"v">>))
PriorA2 == WithKey(Item(<<"a">>, <<"o", "l", "d", "e", "r">>), "legacy", Num(1))
PriorC == WithKey(Item(<<"c">>, <<"o", "l", "d">>), "x_custom", Str(<<"w">>))
PriorPool == {PriorA1, PriorA2, PriorC, Null}

\* What the destination file may hold when the exporter finds it: text that
\* does not parse, an empty file, a document of a foreign shape, or a
\* document with an item list.
ForeignContents ==
    {Garbage, EmptyFile,
     Yaml(Str(<<"h", "i">>)),
     Yaml(Obj([opentime_version |-> Str(<<"0", ".", "2">>)])),
     Yaml(Obj([items |-> Num(5)])),
     Yaml(Obj([items |-> Str(<<"a", "b">>)])),
     Yaml(Obj([items |-> Obj([a |-> Num(1)])]))}
CompanionContents ==
    ForeignContents \cup
    {Yaml(Obj([items |-> Arr(l)])) : l \in SeqsUpTo(PriorPool, MaxPrior)}

\* The preference stores: `defaults read` prints the value and a newline.
ModePrefs == {<<>>, [exportMode |-> SingleFileText \o <<"\n">>],
              [exportMode |-> PerItemText \o <<"\n">>]}
FilenamePrefs == {<<>>, [filename |-> <<"m", "y", "\n">>]}
\* a mode that is not the companion's 'Per Item', and a store with a custom
\* path and a blank file name
OddPrefs == {[exportMode |-> <<"p", "e", "r", "-", "i", "t", "e", "m", "\n">>],
             [customPath |-> <<"/", "c", "\n">>, filename |-> <<" ", "\n">>]}
Plists == {m @@ f : m \in ModePrefs, f \in FilenamePrefs} \cup OddPrefs
SinglePlists == {<<>>, [exportMode |-> SingleFileText \o <<"\n">>,
                        filename |-> <<"m", "y", "\n">>]}

NoCall == [op |-> "none"]
\* no create modal has been constructed
NoModal == [open |-> FALSE]

(***************************************************************************)
(* The exporter and its environment.                                        *)
(***************************************************************************)
PluginIdle ==
    /\ now = 0
    /\ vault = <<>>
    /\ autoExport = FALSE
    /\ runs = <<>>
    /\ history = <<>>
    /\ rt = NoCall
    /\ fn = NoCall
    /\ modal = NoModal
    /\ editor = <<>>

Init ==
    /\ dirs = {}
    /\ files = <<>>
    /\ plist \in SinglePlists
    /\ pending = NoCall
    /\ last = NoCall
    /\ PluginIdle

Fs(fault) == [dirs |-> dirs, files |-> files, clock |-> now, fault |-> fault]

\* The call's record: its arguments, the files it found, and its outcome.
CallRecord(op, items, folder, filename, o) ==
    [op |-> op, items |-> items, folder |-> folder, filename |-> filename,
     before |-> files] @@ o

\* The companion app, or the user, puts a file of its own in the folder.
CompanionWrites(folder, content) ==
    /\ last = NoCall
    /\ dirs' = dirs \cup {folder}
    /\ files' = (FullPath(folder, readElysiumPreferences(plist).singleFilename
                                   \o DotOt) :> content) @@ files
    /\ UNCHANGED <<plist, pending, last, now, vault, autoExport, runs, history, rt, fn,
                   modal, editor>>

\* exportItems up to its await: the folder check, then the preference read
\* is started.
ExportItemsBegin(items, elysiumFolderPath) ==
    /\ last = NoCall
    /\ pending = NoCall
    /\ IF ~FolderConfigured(elysiumFolderPath)
       THEN /\ last' = CallRecord("exportItems", items, elysiumFolderPath, <<>>,
                           Outcome(FALSE, dirs, files, <<>>, Arr(<<>>),
                                   NoDocument, {}))
            /\ UNCHANGED pending
       ELSE /\ pending' = [op |-> "exportItems", items |-> items,
                           folder |-> elysiumFolderPath]
            /\ UNCHANGED last
    /\ UNCHANGED <<dirs, files, plist, now, vault, autoExport, runs, history, rt, fn,
                   modal, editor>>

\* exportItems from its await on, single-file mode.
ExportItemsSingle(fault) ==
    /\ last = NoCall
    /\ pending # NoCall
    /\ \E prefs \in {readElysiumPreferences(plist)} :
           /\ prefs.exportMode # "per-item"
           /\ \E o \in {exportSingleFile(pending.items, pending.folder, Timezone,
                                         prefs.singleFilename, Fs(fault))} :
                  /\ last' = CallRecord("exportSingleFile", pending.items,
                                 pending.folder, prefs.singleFilename,
                                 [o EXCEPT !.io = <<"readElysiumPreferences">>
                                                     \o o.io])
                              @@ [prefs |-> prefs]
                  /\ dirs' = o.dirs
                  /\ files' = o.files
    /\ pending' = NoCall
    /\ UNCHANGED <<plist, now, vault, autoExport, runs, history, rt, fn,
                   modal, editor>>

\* exportItems called again, with the list and the folder of the single-file
\* export that has just returned true, before anything else touches the file.
AgainFaults == {"none", "read", "write"}

ExportItemsAgain(fault) ==
    /\ last # NoCall
    /\ last.op = "exportSingleFile"
    /\ "first" \notin DOMAIN last
    /\ last.ret
    /\ pending = NoCall
    /\ \E prefs \in {readElysiumPreferences(plist)} :
           /\ prefs.exportMode # "per-item"
           /\ \E o \in {exportSingleFile(last.items, last.folder, Timezone,
                                         prefs.singleFilename, Fs(fault))} :
                  /\ last' = CallRecord("exportSingleFile", last.items,
                                 last.folder, prefs.singleFilename,
                                 [o EXCEPT !.io = <<"readElysiumPreferences">>
                                                     \o o.io])
                              @@ [prefs |-> prefs, first |-> last]
                  /\ dirs' = o.dirs
                  /\ files' = o.files
    /\ UNCHANGED <<plist, pending, now, vault, autoExport, runs, history, rt, fn,
                   modal, editor>>

\* exportItems from its await on, per-item mode.
ExportItemsPerItem(faults) ==
    /\ last = NoCall
    /\ pending # NoCall
    /\ Len(faults) = Len(pending.items)
    /\ readElysiumPreferences(plist).exportMode = "per-item"
    /\ \E o \in {exportPerItem(pending.items, pending.folder, Timezone,
                                Fs(faults))} :
           /\ last' = CallRecord("exportPerItem", pending.items,
                          pending.folder, <<>>,
                          [o EXCEPT !.io = <<"readElysiumPreferences">> \o o.io])
                       @@ [prefs |-> readElysiumPreferences(plist)]
           /\ dirs' = o.dirs
           /\ files' = o.files
    /\ pending' = NoCall
    /\ UNCHANGED <<plist, now, vault, autoExport, runs, history, rt, fn,
                   modal, editor>>

\* exportItem, the synchronous entry the create modal calls.
ExportItemCall(item, elysiumFolderPath, fault) ==
    /\ last = NoCall
    /\ \E o \in {exportItem(item, elysiumFolderPath, Timezone, Fs(fault))} :
           /\ last' = CallRecord("exportItem", <<item>>, elysiumFolderPath,
                                 <<>>, o)
           /\ dirs' = o.dirs
           /\ files' = o.files
    /\ UNCHANGED <<plist, pending, now, vault, autoExport, runs, history, rt, fn,
                   modal, editor>>

\* exportDocument, called with a document of the caller's making.
ExportDocumentCall(items, elysiumFolderPath, filename, fault) ==
    /\ last = NoCall
    /\ \E o \in {exportDocument(NewDocument(Timezone, now, items),
                                 elysiumFolderPath, filename, Fs(fault))} :
           /\ last' = CallRecord("exportDocument", items, elysiumFolderPath,
                                 filename, o)
           /\ dirs' = o.dirs
           /\ files' = o.files
    /\ UNCHANGED <<plist, pending, now, vault, autoExport, runs, history, rt, fn,
                   modal, editor>>

\* checkFolderAccess, the probe of the configured folder.
CheckFolderAccessCall(elysiumFolderPath, fault) ==
    /\ last = NoCall
    /\ \E o \in {checkFolderAccess(elysiumFolderPath, Fs(fault))} :
           /\ last' = CallRecord("checkFolderAccess", <<>>, elysiumFolderPath,
                                 <<>>, o)
           /\ dirs' = o.dirs
           /\ files' = o.files
    /\ UNCHANGED <<plist, pending, now, vault, autoExport, runs, history, rt, fn,
                   modal, editor>>

\* The caller takes the result; nothing else runs between a call's last
\* synchronous step and its caller's continuation.
Deliver ==
    /\ last # NoCall
    /\ last' = NoCall
    /\ UNCHANGED <<dirs, files, plist, pending, now, vault, autoExport, runs,
                   history, rt, fn,
                   modal, editor>>

Next ==
    \/ \E c \in CompanionContents : CompanionWrites(FolderE, c)
    \/ \E items \in SeqsUpTo(NewPool, MaxNew), folder \in Folders :
           ExportItemsBegin(items, folder)
    \/ \E fault \in Faults : ExportItemsSingle(fault)
    \/ \E fault \in AgainFaults : ExportItemsAgain(fault)
    \/ Deliver

Spec == Init /\ [][Next]_vars

(***************************************************************************)
(* The exporter's public operations under every preference store: the      *)
(* dispatch of exportItems on the export mode, per-item export, and         *)
(* exportItem called on its own.                                            *)
(***************************************************************************)
PerItemFaults == {"none", "mkdir", "write"}
ApiFaults == {"none", "nofs", "mkdir", "serialize", "write"}
SingleFaults == ApiFaults \cup {"read"}
AccessFaults == {"none", "nofs", "access", "mkdir"}
ApiFolders == {<<>>, FolderE}
DocumentName == <<"d", "o", "c">> \o DotOt

InitApi ==
    /\ dirs = {}
    /\ files = <<>>
    /\ plist \in Plists
    /\ pending = NoCall
    /\ last = NoCall
    /\ PluginIdle

NextApi ==
    \/ \E items \in SeqsUpTo(NewPool, MaxNew), folder \in ApiFolders :
           ExportItemsBegin(items, folder)
    \/ \E fault \in SingleFaults : ExportItemsSingle(fault)
    \/ \E faults \in SeqsUpTo(PerItemFaults, MaxNew) : ExportItemsPerItem(faults)
    \/ \E item \in NewPool, folder \in ApiFolders, fault \in ApiFaults :
           ExportItemCall(item, folder, fault)
    \/ \E folder \in ApiFolders, fault \in ApiFaults :
           ExportDocumentCall(<<NewB, NewA2>>, folder, DocumentName, fault)
    \/ \E folder \in ApiFolders, fault \in AccessFaults :
           CheckFolderAccessCall(folder, fault)
    \/ Deliver

SpecApi == InitApi /\ [][NextApi]_vars

(***************************************************************************)
(* generateId (SettingsTab.ts) and the checkbox parser (TasksParser.ts).    *)
(* An emoji of the Tasks plugin is one character of the text, written here  *)
(* by its name.                                                             *)
(***************************************************************************)
MaxIdTitle == 40
IdPrefix == <<"o", "b", "s">>
TaskIdPrefix == IdPrefix \o <<"_", "t", "a", "s", "k">>

\* s.replace(/^-|-$/g, '')
StripOneHyphen(s) ==
    LET s1 == IF s # <<>> /\ Head(s) = "-" THEN Tail(s) ELSE s
    IN  IF s1 # <<>> /\ s1[Len(s1)] = "-" THEN SubSeq(s1, 1, Len(s1) - 1)
        ELSE s1

\* TimeSuffix with the bug of a suffix that does not depend on the clock
TimeSuffix_Fixed(clock) == toString36(0)

\* Date.now().toString(36)
TimeSuffix(clock) == toString36(clock)

generateId(prefix, title, clock) ==
    LET lowered == toLowerCase(title)
        hyphened == ReplaceRuns(lowered,
                        Range(lowered) \ (LowerAlpha \cup Digits), <<"-">>)
        sanitized == substring0(StripOneHyphen(hyphened), MaxIdTitle)
    IN  prefix \o <<"_">> \o sanitized \o <<"_">> \o TimeSuffix(clock)

TagChars == LowerAlpha \cup UpperAlpha \cup Digits \cup {"_", "-"}

\* the matches of /#([a-zA-Z0-9_-]+)/g, and the text without them
RECURSIVE TagsOf(_)
TagsOf(s) ==
    IF s = <<>> THEN <<>>
    ELSE IF Head(s) = "#" /\ LeadCount(Tail(s), TagChars) > 0
         THEN <<SubSeq(Tail(s), 1, LeadCount(Tail(s), TagChars))>>
              \o TagsOf(StripLead(Tail(s), TagChars))
         ELSE TagsOf(Tail(s))

RECURSIVE RemoveTags(_)
RemoveTags(s) ==
    IF s = <<>> THEN <<>>
    ELSE IF Head(s) = "#" /\ LeadCount(Tail(s), TagChars) > 0
         THEN RemoveTags(StripLead(Tail(s), TagChars))
         ELSE <<Head(s)>> \o RemoveTags(Tail(s))

\* EMOJI_PATTERNS: the characters of the date markers, of the recurrence
\* marker and of the three priority classes
CalendarEmoji == "calendar"        \* U+1F4C5, due
HourglassEmoji == "hourglass"      \* U+23F3, scheduled
AirplaneEmoji == "airplane"        \* U+1F6EB, start
CheckEmoji == "checkmark"          \* U+2705, done
PlusEmoji == "plus"                \* U+2795, created
RepeatEmoji == "repeat"            \* U+1F501, recurring
HighEmojis == {"doubleup", "redtriangle"}      \* U+23EB, U+1F53A
MediumEmojis == {"upbutton"}                   \* U+1F53C
LowEmojis == {"downbutton", "doubledown"}      \* U+1F53D, U+23EC

\* the characters a dot of a regular expression does not match
LineTerminators == {"\n", "\r"}

\* the length of the run of characters of cls (not of cls) that starts at i
RunAt(s, i, cls) == LeadCount(SubSeq(s, i, Len(s)), cls)
RunOutside(s, i, cls) == LeadCount(SubSeq(s, i, Len(s)), Range(s) \ cls)

\* \d{4}-\d{2}-\d{2} matches at position i
IsDateAt(s, i) ==
    /\ i >= 1
    /\ i + 9 <= Len(s)
    /\ \A k \in {0, 1, 2, 3, 5, 6, 8, 9} : s[i + k] \in Digits
    /\ s[i + 4] = "-"
    /\ s[i + 7] = "-"

\* The length of the match of /emoji\s*(\d{4}-\d{2}-\d{2})/ at position i,
\* 0 when it does not match there.
DateMatchLen(s, i, emoji) ==
    IF s[i] = emoji /\ IsDateAt(s, i + 1 + RunAt(s, i + 1, WhiteSpace))
    THEN 11 + RunAt(s, i + 1, WhiteSpace) ELSE 0

\* The same for /repeat\s*([^\s]+)/ and for a character class.
RecurMatchLen(s, i) ==
    LET j == i + 1 + RunAt(s, i + 1, WhiteSpace)
    IN  IF s[i] = RepeatEmoji /\ j <= Len(s)
        THEN (j - i) + RunOutside(s, j, WhiteSpace) ELSE 0

ClassMatchLen(s, i, cls) == IF s[i] \in cls THEN 1 ELSE 0

\* The patterns of EMOJI_PATTERNS, and the length of a pattern's match at
\* position i of s.
DuePattern == [kind |-> "date", emoji |-> CalendarEmoji]
ScheduledPattern == [kind |-> "date", emoji |-> HourglassEmoji]
StartPattern == [kind |-> "date", emoji |-> AirplaneEmoji]
DonePattern == [kind |-> "date", emoji |-> CheckEmoji]
CreatedPattern == [kind |-> "date", emoji |-> PlusEmoji]
RecurringPattern == [kind |-> "recurring"]
HighPattern == [kind |-> "class", cls |-> HighEmojis]
MediumPattern == [kind |-> "class", cls |-> MediumEmojis]
LowPattern == [kind |-> "class", cls |-> LowEmojis]

MatchLen(s, i, pattern) ==
    IF pattern.kind = "date" THEN DateMatchLen(s, i, pattern.emoji)
    ELSE IF pattern.kind = "recurring" THEN RecurMatchLen(s, i)
    ELSE ClassMatchLen(s, i, pattern.cls)

\* The position of the first match of a pattern in s, 0 when there is none;
\* s.replace(pattern, '') of a pattern without the g flag removes that match
\* and no other.
FirstAt(s, pattern) ==
    IF \E i \in DOMAIN s : MatchLen(s, i, pattern) > 0
    THEN CHOOSE i \in DOMAIN s :
             /\ MatchLen(s, i, pattern) > 0
             /\ \A j \in 1..(i - 1) : MatchLen(s, j, pattern) = 0
    ELSE 0

ReplaceFirst(s, pattern) ==
    IF FirstAt(s, pattern) = 0 THEN s
    ELSE SubSeq(s, 1, FirstAt(s, pattern) - 1)
             \o SubSeq(s, FirstAt(s, pattern)
                              + MatchLen(s, FirstAt(s, pattern), pattern),
                       Len(s))

\* content.match(pattern)?.[1] of a date pattern
DateCapture(s, pattern) ==
    IF FirstAt(s, pattern) = 0 THEN Undef
    ELSE Str(SubSeq(s, FirstAt(s, pattern)
                           + MatchLen(s, FirstAt(s, pattern), pattern) - 10,
                       FirstAt(s, pattern)
                           + MatchLen(s, FirstAt(s, pattern), pattern) - 1))

\* PriorityOf with the bug of testing the low class before the high one
PriorityOf_LowFirst(content) ==
    IF Range(content) \cap LowEmojis # {} THEN Num(1)
    ELSE IF Range(content) \cap MediumEmojis # {} THEN Num(5)
    ELSE IF Range(content) \cap HighEmojis # {} THEN Num(9)
    ELSE Undef

\* the if / else if chain of the three priority tests
PriorityOf(content) ==
    IF Range(content) \cap HighEmojis # {} THEN Num(9)
    ELSE IF Range(content) \cap MediumEmojis # {} THEN Num(5)
    ELSE IF Range(content) \cap LowEmojis # {} THEN Num(1)
    ELSE Undef

\* the chain of replace calls that makes the title, before the trim
CleanTitle(content) ==
    RemoveTags(
      ReplaceFirst(
        ReplaceFirst(
          ReplaceFirst(
            ReplaceFirst(
              ReplaceFirst(
                ReplaceFirst(
                  ReplaceFirst(
                    ReplaceFirst(
                      ReplaceFirst(content, DuePattern),
                      ScheduledPattern),
                    StartPattern),
                  DonePattern),
                CreatedPattern),
              RecurringPattern),
            HighPattern),
          MediumPattern),
        LowPattern))

\* TASK_PATTERN = /^(\s*)-\s*\[([ xX])\]\s*(.+)$/ ; the content group takes
\* what follows the blanks after the bracket, or the last of those blanks
\* when nothing else follows; it holds no line terminator.
MatchTask(line) ==
    LET s1 == StripLead(line, WhiteSpace)
        s2 == IF s1 # <<>> THEN StripLead(Tail(s1), WhiteSpace) ELSE <<>>
        after == SubSeq(s2, 4, Len(s2))
        rest == StripLead(after, WhiteSpace)
        content == IF rest # <<>> THEN rest ELSE <<after[Len(after)]>>
    IN  IF /\ s1 # <<>> /\ Head(s1) = "-"
           /\ Len(s2) >= 4
           /\ s2[1] = "[" /\ s2[2] \in {" ", "x", "X"} /\ s2[3] = "]"
           /\ Range(content) \cap LineTerminators = {}
        THEN [ok |-> TRUE, checkbox |-> s2[2], content |-> content]
        ELSE [ok |-> FALSE]

\* Completed with the bug of a case-sensitive comparison
Completed_LowerOnly(checkbox) == checkbox = "x"

\* checkbox.toLowerCase() === 'x'
Completed(checkbox) == LowerChar(checkbox) = "x"

TasksParser_parseLine(line, lineNumber) ==
    LET m == MatchTask(line)
    IN  IF ~m.ok THEN [ok |-> FALSE]
        ELSE [ok |-> TRUE,
              title |-> trim(CleanTitle(m.content)),
              completed |-> Completed(m.checkbox),
              dueDate |-> DateCapture(m.content, DuePattern),
              scheduledDate |-> DateCapture(m.content, ScheduledPattern),
              startDate |-> DateCapture(m.content, StartPattern),
              doneDate |-> DateCapture(m.content, DonePattern),
              priority |-> PriorityOf(m.content),
              tags |-> TagsOf(m.content),
              lineNumber |-> lineNumber,
              originalText |-> line]

NotePath == <<"n", ".", "m", "d">>

TasksParser_toOpenTimeTask(parsed, clock) ==
    LET base == [type |-> Str(TaskType),
                 id |-> Str(generateId(TaskIdPrefix, parsed.title, clock)),
                 title |-> Str(parsed.title),
                 status |-> Str(IF parsed.completed THEN <<"d", "o", "n", "e">>
                                ELSE <<"t", "o", "d", "o">>),
                 x_obsidian |-> Obj([source_file |-> Str(NotePath),
                                     line_number |-> Num(parsed.lineNumber),
                                     original_text |-> Str(parsed.originalText)])]
        due == IF parsed.dueDate = Undef THEN <<>>
               ELSE [due |-> parsed.dueDate]
        scheduled ==
            IF parsed.scheduledDate = Undef THEN <<>>
            ELSE [scheduled_start |->
                     Str(parsed.scheduledDate.v \o <<"T", "0", "9", ":", "0", "0",
                                                     ":", "0", "0">>)]
        priority == IF parsed.priority = Undef THEN <<>>
                    ELSE [priority |-> parsed.priority]
        tags == IF parsed.tags = <<>> THEN <<>>
                ELSE [tags |-> Arr([i \in DOMAIN parsed.tags |->
                                       Str(parsed.tags[i])])]
    IN  Obj(due @@ scheduled @@ priority @@ tags @@ base)

RECURSIVE ParseLinesFrom(_, _, _)
ParseLinesFrom(lines, index, clock) ==
    IF index > Len(lines) THEN <<>>
    ELSE LET parsed == TasksParser_parseLine(lines[index], index)
         IN  (IF parsed.ok THEN <<TasksParser_toOpenTimeTask(parsed, clock)>>
              ELSE <<>>) \o ParseLinesFrom(lines, index + 1, clock)

\* content.split('\n') is the sequence of the note's lines
TasksParser_parseFile(lines, clock) == ParseLinesFrom(lines, 1, clock)

(***************************************************************************)
(* The plugin (main.ts): a vault of one note, the clock, the auto-export    *)
(* setting, and the export runs in flight.  A run is an exportAll or an     *)
(* exportFile between two of its awaits: "read" while vault.read is         *)
(* pending, "prefs" while exportItems waits for the preference read.        *)
(***************************************************************************)
LineTodo == <<"-", " ", "[", " ", "]", " ", "a">>
LineDone == <<"-", " ", "[", "x", "]", " ", "B", " ", "#", "t">>
LineText == <<"h", "i">>
LinePool == {LineTodo, LineDone, LineText}
Vaults == SeqsUpTo(LinePool, MaxLines)
ElysiumFolderSetting == FolderE

InitPlugin ==
    /\ dirs = {}
    /\ files = <<>>
    /\ plist = <<>>
    /\ pending = NoCall
    /\ last = NoCall
    /\ now = 0
    /\ vault \in Vaults
    /\ autoExport = FALSE
    /\ runs = <<>>
    /\ history = <<>>
    /\ rt = NoCall
    /\ fn = NoCall
    /\ modal = NoModal
    /\ editor = <<>>

RemoveAt(seq, i) == SubSeq(seq, 1, i - 1) \o SubSeq(seq, i + 1, Len(seq))

\* exportAll / exportFile up to the first await: nothing stands between a
\* trigger and a new run but the folder setting.
StartRun(op) ==
    IF FolderConfigured(ElysiumFolderSetting)
    THEN runs' = Append(runs, [op |-> op, pc |-> "read", items |-> <<>>,
                               seen |-> <<>>, at |-> now])
    ELSE UNCHANGED runs

RunsBounded == Len(runs) + Len(history) < MaxRuns

RibbonClick ==
    /\ RunsBounded
    /\ StartRun("exportAll")
    /\ UNCHANGED <<dirs, files, plist, pending, last, now, vault, autoExport,
                   history, rt, fn,
                   modal, editor>>

ExportAllCommand ==
    /\ RunsBounded
    /\ StartRun("exportAll")
    /\ UNCHANGED <<dirs, files, plist, pending, last, now, vault, autoExport,
                   history, rt, fn,
                   modal, editor>>

ExportFileCommand ==
    /\ RunsBounded
    /\ StartRun("exportFile")
    /\ UNCHANGED <<dirs, files, plist, pending, last, now, vault, autoExport,
                   history, rt, fn,
                   modal, editor>>

\* The user edits the note; the vault's 'modify' handler runs.
VaultModify(content) ==
    /\ content # vault
    /\ vault' = content
    /\ IF autoExport
       THEN RunsBounded /\ StartRun("exportAll")
       ELSE UNCHANGED runs
    /\ UNCHANGED <<dirs, files, plist, pending, last, now, autoExport, history, rt, fn,
                   modal, editor>>

SetAutoExport(value) ==
    /\ autoExport # value
    /\ autoExport' = value
    /\ UNCHANGED <<dirs, files, plist, pending, last, now, vault, runs, history, rt, fn,
                   modal, editor>>

Tick ==
    /\ now < MaxClock
    /\ now' = now + 1
    /\ UNCHANGED <<dirs, files, plist, pending, last, vault, autoExport, runs,
                   history, rt, fn,
                   modal, editor>>

\* the number of items in the document the file at path holds
ItemCount(fsFiles, path) ==
    IF path \in DOMAIN fsFiles /\ fsFiles[path].kind = "yaml"
    THEN Len(Elements(GetProp(fsFiles[path].doc, "items")))
    ELSE 0

RunRecord(run, wrote, count) ==
    [op |-> run.op, seen |-> run.seen, at |-> run.at,
     ids |-> [i \in DOMAIN run.items |-> ItemId(run.items[i])],
     wrote |-> wrote, count |-> count]

\* vault.read resolves: parseFile runs the parser on the note as it is now;
\* with no item the run ends, otherwise exportItems is called and waits
\* for the preferences.
RunParse(i) ==
    /\ i \in DOMAIN runs
    /\ runs[i].pc = "read"
    /\ LET items == TasksParser_parseFile(vault, now)
           run == [runs[i] EXCEPT !.items = items, !.seen = vault, !.at = now,
                                  !.pc = "prefs"]
       IN  IF items = <<>> \/ ~FolderConfigured(ElysiumFolderSetting)
           THEN /\ runs' = RemoveAt(runs, i)
                /\ history' = Append(history, RunRecord(run, FALSE, 0))
           ELSE /\ runs' = [runs EXCEPT ![i] = run]
                /\ UNCHANGED history
    /\ UNCHANGED <<dirs, files, plist, pending, last, now, vault, autoExport, rt, fn,
                   modal, editor>>

\* readElysiumPreferences resolves: the rest of exportItems and of the run.
RunExport(i) ==
    /\ i \in DOMAIN runs
    /\ runs[i].pc = "prefs"
    /\ \E prefs \in {readElysiumPreferences(plist)} :
       \E o \in {IF prefs.exportMode = "per-item"
                 THEN exportPerItem(runs[i].items, ElysiumFolderSetting,
                          Timezone, Fs([k \in DOMAIN runs[i].items |-> "none"]))
                 ELSE exportSingleFile(runs[i].items, ElysiumFolderSetting,
                          Timezone, prefs.singleFilename, Fs("none"))} :
           /\ dirs' = o.dirs
           /\ files' = o.files
           /\ history' = Append(history,
                  RunRecord(runs[i], o.ret,
                      ItemCount(o.files,
                          FullPath(normalizePath(ElysiumFolderSetting),
                                   prefs.singleFilename \o DotOt))))
    /\ runs' = RemoveAt(runs, i)
    /\ UNCHANGED <<plist, pending, last, now, vault, autoExport, rt, fn,
                   modal, editor>>

NextPlugin ==
    \/ RibbonClick
    \/ ExportAllCommand
    \/ ExportFileCommand
    \/ \E content \in Vaults : VaultModify(content)
    \/ \E value \in BOOLEAN : SetAutoExport(value)
    \/ Tick
    \/ \E i \in 1..MaxRuns : RunParse(i)
    \/ \E i \in 1..MaxRuns : RunExport(i)

SpecPlugin == InitPlugin /\ [][NextPlugin]_vars

(***************************************************************************)
(* ElysiumItemReader.serializeDocument / serializeItem / quote.  The text   *)
(* is kept as its sequence of lines; a line is its indentation, its key     *)
(* and, character by character, what the serializer puts after the key.    *)
(***************************************************************************)
\* what a line holds in place of its text when building it threw
TypeError == <<"TypeError">>

\* the backtick, which a string of this language cannot hold
Backtick == "grave"
SpecialChars == {":", "#", "[", "]", "{", "}", "|", ">", "&", "*", "?", "!",
                 ",", "'", "\"", "%", "@", Backtick}

\* NeedsQuotes with the bug of leaving the empty string bare
NeedsQuotes_NoEmpty(s) ==
    /\ s # <<>>
    /\ \/ Range(s) \cap SpecialChars # {}
       \/ s[1] \in WhiteSpace
       \/ s[Len(s)] \in WhiteSpace
       \/ (Len(s) >= 2 /\ s[1] = "-" /\ s[2] \in WhiteSpace)

\* /[:#\[\]{}|>&*?!,'"%@`]|^\s|\s$|^-\s|^$/.test(s)
NeedsQuotes(s) ==
    \/ Range(s) \cap SpecialChars # {}
    \/ s = <<>>
    \/ s[1] \in WhiteSpace
    \/ s[Len(s)] \in WhiteSpace
    \/ (Len(s) >= 2 /\ s[1] = "-" /\ s[2] \in WhiteSpace)

\* value.replace(/"/g, '\\"').replace(/\n/g, '\\n')
RECURSIVE EscapeQuoted(_)
EscapeQuoted(s) ==
    IF s = <<>> THEN <<>>
    ELSE (IF Head(s) = "\"" THEN <<"\\", "\"">>
          ELSE IF Head(s) = "\n" THEN <<"\\", "n">>
          ELSE <<Head(s)>>) \o EscapeQuoted(Tail(s))

\* A value that is not a string has no includes / replace: the call throws.
quote(value) ==
    IF value.t # "str" THEN TypeError
    ELSE IF NeedsQuotes(value.v) \/ "\n" \in Range(value.v)
         THEN <<"\"">> \o EscapeQuoted(value.v) \o <<"\"">>
         ELSE value.v

\* `${v}`: the string a template literal makes of a value
ToText(v) ==
    CASE v.t = "str" -> v.v
      [] v.t = "num" -> IF v.v < 0 THEN <<"-">> \o toString10(0 - v.v)
                        ELSE toString10(v.v)
      [] v.t = "bool" -> IF v.v THEN <<"t", "r", "u", "e">>
                         ELSE <<"f", "a", "l", "s", "e">>
      [] v.t = "null" -> <<"n", "u", "l", "l">>
      [] v.t = "undefined" -> <<"u", "n", "d", "e", "f", "i", "n", "e", "d">>
      [] v.t = "date" -> v.v
      [] OTHER -> <<"[", "o", "b", "j", "e", "c", "t", "]">>

\* `  - type: ...`: the dash at column 2 puts the key at column 4
ItemLine(text) == [kind |-> "item", indent |-> 4, key |-> "type", text |-> text]
Scalar(indent, key, text) ==
    [kind |-> "scalar", indent |-> indent, key |-> key, text |-> text]
Open(indent, key) == [kind |-> "open", indent |-> indent, key |-> key]
Flow(indent, key, texts) ==
    [kind |-> "flow", indent |-> indent, key |-> key, texts |-> texts]
Block(indent, key, lines) ==
    [kind |-> "block", indent |-> indent, key |-> key, lines |-> lines]
Blank == [kind |-> "blank"]
Comment(n) == [kind |-> "comment", n |-> n]

\* s.split(sep)
RECURSIVE Split(_, _)
Split(s, sep) ==
    LET n == LeadCount(s, Range(s) \ {sep})
    IN  IF n = Len(s) THEN <<s>>
        ELSE <<SubSeq(s, 1, n)>> \o Split(SubSeq(s, n + 2, Len(s)), sep)

Opt(cond, lines) == IF cond THEN lines ELSE <<>>
Has(item, k) == Truthy(GetProp(item, k))
Defined(item, k) == GetProp(item, k).t # "undefined"
Quoted(indent, item, k) == Scalar(indent, k, quote(GetProp(item, k)))
OptQuoted(indent, item, k) == Opt(Has(item, k), <<Quoted(indent, item, k)>>)
Raw(indent, item, k) == Scalar(indent, k, ToText(GetProp(item, k)))

\* the switch on item.type
TypeLines(item) ==
    LET type == GetProp(item, "type")
    IN  CASE type = Str(<<"g", "o", "a", "l">>) ->
               <<Scalar(4, "kind", <<"g", "o", "a", "l">>)>>
               \o OptQuoted(4, item, "target_date")
               \o Opt(Defined(item, "progress"), <<Raw(4, item, "progress")>>)
               \o OptQuoted(4, item, "project_id")
          [] type = Str(TaskType) ->
               <<Raw(4, item, "status")>>
               \o OptQuoted(4, item, "due")
               \o OptQuoted(4, item, "scheduled_start")
               \o Opt(Has(item, "estimate_minutes"),
                      <<Raw(4, item, "estimate_minutes")>>)
               \o Opt(Defined(item, "priority"), <<Raw(4, item, "priority")>>)
               \o OptQuoted(4, item, "goal_id")
               \o OptQuoted(4, item, "project_id")
          [] type = Str(<<"h", "a", "b", "i", "t">>) ->
               Opt(Has(item, "pattern"),
                   <<Open(4, "pattern")>>
                   \o Opt(Has(GetProp(item, "pattern"), "freq"),
                          <<Raw(6, GetProp(item, "pattern"), "freq")>>))
               \o OptQuoted(4, item, "goal_id")
          [] type = Str(<<"r", "e", "m", "i", "n", "d", "e", "r">>) ->
               <<Quoted(4, item, "time")>> \o OptQuoted(4, item, "repeat")
          [] type = Str(<<"e", "v", "e", "n", "t">>) ->
               <<Quoted(4, item, "start"), Quoted(4, item, "end")>>
               \o OptQuoted(4, item, "location")
               \o OptQuoted(4, item, "goal_id")
          [] type = Str(<<"a", "p", "p", "o", "i", "n", "t", "m", "e", "n", "t">>) ->
               <<Quoted(4, item, "start"), Quoted(4, item, "end")>>
               \o Opt(Has(item, "attendees"),
                      <<IF GetProp(item, "attendees").t = "seq"
                        THEN Flow(4, "attendees",
                                 [i \in DOMAIN GetProp(item, "attendees").e |->
                                      quote(GetProp(item, "attendees").e[i])])
                        ELSE Scalar(4, "attendees", TypeError)>>)
               \o OptQuoted(4, item, "location")
          [] type = Str(<<"p", "r", "o", "j", "e", "c", "t">>) ->
               <<Scalar(4, "kind", <<"p", "r", "o", "j", "e", "c", "t">>)>>
               \o OptQuoted(4, item, "target_date")
               \o Opt(Defined(item, "progress"), <<Raw(4, item, "progress")>>)
          [] OTHER -> <<>>

\* item.tags && item.tags.length > 0, then item.tags.map
TagLines(item) ==
    LET tags == GetProp(item, "tags")
    IN  IF tags.t = "seq" /\ Len(tags.e) > 0
        THEN <<Flow(4, "tags", [i \in DOMAIN tags.e |-> quote(tags.e[i])])>>
        ELSE IF tags.t = "str" /\ Len(tags.v) > 0
        THEN <<Scalar(4, "tags", TypeError)>>
        ELSE <<>>

\* item.notes.includes('\n') throws on a value that is not a string
NotesLines(item) ==
    LET notes == GetProp(item, "notes")
    IN  IF ~Truthy(notes) THEN <<>>
        ELSE IF notes.t # "str" THEN <<Scalar(4, "notes", TypeError)>>
        ELSE IF "\n" \in Range(notes.v)
        THEN <<Block(4, "notes", Split(notes.v, "\n"))>>
        ELSE <<Scalar(4, "notes", quote(notes))>>

ExtensionLines(item) ==
    LET xo == GetProp(item, "x_obsidian")
        xe == GetProp(item, "x_elysium")
    IN  Opt(Truthy(xo),
            <<Open(4, "x_obsidian"), Quoted(6, xo, "source_file")>>
            \o OptQuoted(6, xo, "folder_path"))
        \o Opt(Truthy(xe),
            <<Open(4, "x_elysium"), Raw(6, xe, "obsidian_enabled")>>
            \o OptQuoted(6, xe, "obsidian_vault_name")
            \o OptQuoted(6, xe, "obsidian_folder_path")
            \o OptQuoted(6, xe, "obsidian_source_file")
            \o Opt(Has(xe, "obsidian_behavior"),
                   <<Raw(6, xe, "obsidian_behavior")>>))

\* reading item.type of null or undefined throws
serializeItem(item) ==
    IF ThrowsOnRead(item) THEN <<ItemLine(TypeError)>>
    ELSE <<ItemLine(ToText(GetProp(item, "type"))),
           Quoted(4, item, "id"), Quoted(4, item, "title")>>
         \o TypeLines(item) \o TagLines(item) \o NotesLines(item)
         \o ExtensionLines(item) \o <<Blank>>

RECURSIVE FlattenLines(_)
FlattenLines(groups) ==
    IF groups = <<>> THEN <<>> ELSE Head(groups) \o FlattenLines(Tail(groups))

LineThrew(line) ==
    \/ line.kind \in {"item", "scalar"} /\ line.text = TypeError
    \/ line.kind = "flow" /\ \E i \in DOMAIN line.texts : line.texts[i] = TypeError

\* `"${value}"`
DoubleQuoted(text) == <<"\"">> \o text \o <<"\"">>

Version02 == <<"0", ".", "2">>

\* The text of a document, or threw when a line could not be built or
\* doc.items cannot be iterated.
serializeDocument(doc, clock) ==
    LET items == GetProp(doc, "items")
        head == <<Comment(1), Comment(2), Blank,
                  Scalar(0, "opentime_version",
                         DoubleQuoted(IF Has(doc, "opentime_version")
                                      THEN ToText(GetProp(doc, "opentime_version"))
                                      ELSE Version02))>>
                \o Opt(Has(doc, "default_timezone"),
                       <<Scalar(0, "default_timezone",
                            DoubleQuoted(ToText(GetProp(doc, "default_timezone"))))>>)
                \o Opt(Has(doc, "generated_by"),
                       <<Scalar(0, "generated_by",
                            DoubleQuoted(ToText(GetProp(doc, "generated_by"))))>>)
                \o <<Scalar(0, "created_at",
                            DoubleQuoted(IF Has(doc, "created_at")
                                         THEN ToText(GetProp(doc, "created_at"))
                                         ELSE toISOString(clock))),
                     Blank, Open(0, "items")>>
        body == FlattenLines([i \in DOMAIN Elements(items) |->
                                  serializeItem(Elements(items)[i])])
    IN  IF ~IsIterable(items) \/ \E i \in DOMAIN body : LineThrew(body[i])
        THEN [threw |-> TRUE, lines |-> <<>>]
        ELSE [threw |-> FALSE, lines |-> head \o body]

(***************************************************************************)
(* yaml.load (js-yaml, default schema) on the text the serializer makes:    *)
(* double-quoted scalars with their escapes, plain scalars resolved to      *)
(* null, booleans, decimal integers, dates and strings, flow sequences,     *)
(* block literals and nested mappings.  Plain scalars in other notations    *)
(* (hexadecimal, floats, full timestamps) are not among the model's inputs. *)
(***************************************************************************)
YamlError == [t |-> "error"]
BadText == <<"YAMLException">>

\* the simple escape sequences of a double-quoted scalar
EscapeValue ==
    ("0" :> "NUL") @@ ("a" :> "BEL") @@ ("b" :> "BS") @@ ("t" :> "\t") @@
    ("n" :> "\n") @@ ("v" :> "VT") @@ ("f" :> "\f") @@ ("r" :> "\r") @@
    ("e" :> "ESC") @@ (" " :> " ") @@ ("\"" :> "\"") @@ ("/" :> "/") @@
    ("\\" :> "\\") @@ ("N" :> "NEL") @@ ("_" :> "NBSP") @@ ("L" :> "LS") @@
    ("P" :> "PS")

ConsText(c, rest) == IF rest = BadText THEN BadText ELSE <<c>> \o rest

\* the characters between the quotes of a double-quoted scalar
RECURSIVE Unescape(_)
Unescape(s) ==
    IF s = <<>> THEN <<>>
    ELSE IF Head(s) = "\"" THEN BadText
    ELSE IF Head(s) = "\\"
         THEN IF Len(s) >= 2 /\ s[2] \in DOMAIN EscapeValue
              THEN ConsText(EscapeValue[s[2]], Unescape(SubSeq(s, 3, Len(s))))
              ELSE BadText
    ELSE ConsText(Head(s), Unescape(Tail(s)))

StrOrError(text) == IF text = BadText THEN YamlError ELSE Str(text)

NullTexts == {<<>>, <<"~">>, <<"n", "u", "l", "l">>, <<"N", "u", "l", "l">>,
              <<"N", "U", "L", "L">>}
TrueTexts == {<<"t", "r", "u", "e">>, <<"T", "r", "u", "e">>,
              <<"T", "R", "U", "E">>}
FalseTexts == {<<"f", "a", "l", "s", "e">>, <<"F", "a", "l", "s", "e">>,
               <<"F", "A", "L", "S", "E">>}

IsDigits(s) == s # <<>> /\ Range(s) \subseteq Digits
IsInt(s) ==
    \/ IsDigits(s)
    \/ (Len(s) >= 2 /\ s[1] \in {"-", "+"} /\ IsDigits(Tail(s)))

DigitValue(c) == (CHOOSE i \in DOMAIN DigitSeq : DigitSeq[i] = c) - 1

RECURSIVE ParseDigits(_)
ParseDigits(s) ==
    IF s = <<>> THEN 0
    ELSE 10 * ParseDigits(SubSeq(s, 1, Len(s) - 1)) + DigitValue(s[Len(s)])

ParseInt(s) ==
    IF s[1] = "-" THEN 0 - ParseDigits(Tail(s))
    ELSE IF s[1] = "+" THEN ParseDigits(Tail(s))
    ELSE ParseDigits(s)

\* YYYY-MM-DD
IsDate(s) ==
    /\ Len(s) = 10
    /\ s[5] = "-" /\ s[8] = "-"
    /\ \A i \in {1, 2, 3, 4, 6, 7, 9, 10} : s[i] \in Digits

ResolvePlain(text) ==
    IF text \in NullTexts THEN Null
    ELSE IF text \in TrueTexts THEN Bool(TRUE)
    ELSE IF text \in FalseTexts THEN Bool(FALSE)
    ELSE IF IsInt(text) THEN Num(ParseInt(text))
    ELSE IF IsDate(text) THEN Date(text)
    ELSE Str(text)

yamlScalar(text) ==
    IF text # <<>> /\ Head(text) = "\""
    THEN IF Len(text) >= 2 /\ text[Len(text)] = "\""
         THEN StrOrError(Unescape(SubSeq(text, 2, Len(text) - 1)))
         ELSE YamlError
    ELSE ResolvePlain(trim(text))

RECURSIVE Join(_, _)
Join(parts, sep) ==
    IF parts = <<>> THEN <<>>
    ELSE IF Len(parts) = 1 THEN parts[1]
    ELSE parts[1] \o <<sep>> \o Join(Tail(parts), sep)

RECURSIVE DropTrailingEmpty(_)
DropTrailingEmpty(lines) ==
    IF lines # <<>> /\ Range(lines[Len(lines)]) \subseteq {" "}
    THEN DropTrailingEmpty(SubSeq(lines, 1, Len(lines) - 1))
    ELSE lines

\* a block literal with the default chomping: the lines, each ended by a
\* line break, without the empty lines at the end
BlockText(kept) == IF kept = <<>> THEN <<>> ELSE Join(kept, "\n") \o <<"\n">>
BlockValue(lines) == BlockText(DropTrailingEmpty(lines))

LineValue(line) ==
    CASE line.kind \in {"scalar", "item"} -> yamlScalar(line.text)
      [] line.kind = "flow" ->
             Arr([i \in DOMAIN line.texts |-> yamlScalar(line.texts[i])])
      [] line.kind = "block" -> Str(BlockValue(line.lines))

RECURSIVE ChildCount(_, _)
ChildCount(lines, indent) ==
    IF /\ lines # <<>>
       /\ Head(lines).kind \notin {"blank", "comment"}
       /\ Head(lines).indent > indent
    THEN 1 + ChildCount(Tail(lines), indent)
    ELSE 0

\* the mapping made by the lines at one indentation; the lines indented
\* deeper belong to the key that opens them, and a key that opens nothing
\* has the value null
RECURSIVE Fields(_, _)
NestedValue(children, indent) ==
    IF children = <<>> THEN Null ELSE Obj(Fields(children, indent))

Fields(lines, indent) ==
    IF lines = <<>> THEN <<>>
    ELSE IF Head(lines).kind \in {"blank", "comment"}
         THEN Fields(Tail(lines), indent)
    ELSE IF Head(lines).indent > indent
         THEN Fields(Tail(lines), indent)
    ELSE IF Head(lines).kind = "open"
         THEN (Head(lines).key :>
                   NestedValue(SubSeq(Tail(lines), 1,
                                      ChildCount(Tail(lines), indent)),
                               indent + 2))
              @@ Fields(Tail(lines), indent)
    ELSE (Head(lines).key :> LineValue(Head(lines))) @@ Fields(Tail(lines), indent)

RECURSIVE NonItemCount(_)
NonItemCount(lines) ==
    IF lines # <<>> /\ Head(lines).kind # "item"
    THEN 1 + NonItemCount(Tail(lines)) ELSE 0

\* the lines of each entry of the items sequence
RECURSIVE ItemGroups(_)
ItemGroupsAt(lines, n) ==
    <<SubSeq(lines, 1, n)>> \o ItemGroups(SubSeq(lines, n + 1, Len(lines)))
ItemGroups(lines) ==
    IF lines = <<>> THEN <<>>
    ELSE ItemGroupsAt(lines, 1 + NonItemCount(Tail(lines)))

RECURSIVE HasError(_)
HasError(v) ==
    \/ v = YamlError
    \/ v.t = "seq" /\ \E i \in DOMAIN v.e : HasError(v.e[i])
    \/ v.t = "map" /\ \E k \in DOMAIN v.f : HasError(v.f[k])

ItemsValue(groups) ==
    IF groups = <<>> THEN Null
    ELSE Arr([i \in DOMAIN groups |-> Obj(Fields(groups[i], 4))])

DecodedDocument(lines, n) ==
    Obj(("items" :> ItemsValue(ItemGroups(SubSeq(lines, n + 2, Len(lines)))))
        @@ Fields(SubSeq(lines, 1, n), 0))

\* the number of lines before the line that opens the items
RECURSIVE NonOpenCount(_)
NonOpenCount(lines) ==
    IF lines # <<>> /\ Head(lines).kind # "open"
    THEN 1 + NonOpenCount(Tail(lines)) ELSE 0

Decoded(doc) == [ok |-> ~HasError(doc), doc |-> doc]

\* yaml.load of a serialized document: the keys before `items:` and the
\* entries after it
yamlLoadText(lines) ==
    Decoded(DecodedDocument(lines, NonOpenCount(lines)))

(***************************************************************************)
(* The round trip of a document through the serializer and the decoder.    *)
(***************************************************************************)
WithOpt(f, k, v) == IF v = Undef THEN f ELSE (k :> v) @@ f

RtTitles == {<<"a">>, <<"a", ":", " ", "b">>, <<"1", "2">>,
             <<"t", "r", "u", "e">>, <<"s", "\"", "q">>,
             <<"C", ":", "\\", "d">>}
RtDate == <<"2", "0", "2", "5", "-", "0", "1", "-", "1", "5">>
RtDues == {Undef, Str(RtDate)}
RtPriorities == {Undef, Num(5)}
RtTags == {Undef, Arr(<<Str(<<"t">>)>>),
           Arr(<<Str(<<"a", ",", "b">>), Str(<<"u">>)>>)}
RtNotes == {Undef, Str(<<"n">>), Str(<<"a", "\n", "b">>), Str(<<"a", "\n">>)}
RtSources == {Undef, Obj([source_file |-> Str(NotePath)])}

RtTask(title, due, priority, tags, notes, xo) ==
    Obj(WithOpt(WithOpt(WithOpt(WithOpt(WithOpt(
            Item(<<"i", "d">>, title).f,
            "due", due), "priority", priority), "tags", tags),
            "notes", notes), "x_obsidian", xo))

RtTime == RtDate \o <<"T", "0", "9", ":", "0", "0", ":", "0", "0">>
RtEvent ==
    Obj([type |-> Str(<<"e", "v", "e", "n", "t">>), id |-> Str(<<"e", "v">>),
         title |-> Str(<<"a">>), start |-> Str(RtTime), end |-> Str(RtTime)])

RtItems ==
    {RtTask(title, due, priority, tags, notes, xo) :
         title \in RtTitles, due \in RtDues, priority \in RtPriorities,
         tags \in RtTags, notes \in RtNotes, xo \in RtSources}
    \cup {RtEvent}

RtDocuments ==
    {NewDocument(Timezone, 0, <<>>)}
    \cup {NewDocument(Timezone, 0, <<item>>) : item \in RtItems}

(***************************************************************************)
(* ElysiumItemReader.linkItemToObsidian, run on the file at filepath whose  *)
(* text yaml.load decodes to doc, with the environment's fault: the read    *)
(* or the write that throws, if any.  The result holds the return value,    *)
(* whether the file was written, and the text written.                      *)
(***************************************************************************)
Alongside == <<"a", "l", "o", "n", "g", "s", "i", "d", "e">>
VaultName == <<"v">>
ObsidianInfo ==
    [source_file |-> Str(NotePath), folder_path |-> Str(<<>>),
     vault_name |-> Str(VaultName), behavior |-> Str(Alongside)]

Linked(ret, written, lines) == [ret |-> ret, written |-> written, lines |-> lines]

XElysium(obsidianInfo) ==
    Obj([obsidian_enabled |-> Bool(TRUE),
         obsidian_vault_name |-> obsidianInfo.vault_name,
         obsidian_folder_path |-> obsidianInfo.folder_path,
         obsidian_source_file |-> obsidianInfo.source_file,
         obsidian_behavior |-> obsidianInfo.behavior])

linkItemToObsidian(doc, itemId, obsidianInfo, clock, fault) ==
    LET items == GetProp(doc, "items")
        list == Elements(items)
        \* the loop ends at the first entry whose id is itemId, or throws at
        \* the first entry that is null
        stops == {i \in DOMAIN list :
                     ThrowsOnRead(list[i]) \/ ItemId(list[i]) = Str(itemId)}
        at == CHOOSE i \in stops : \A j \in stops : i <= j
        linked == Obj([doc.f EXCEPT !.items =
                      Arr([j \in DOMAIN list |->
                              IF j = at
                              THEN WithKey(list[j], "x_elysium",
                                           XElysium(obsidianInfo))
                              ELSE list[j]])])
    IN  IF fault = "read" THEN Linked(FALSE, FALSE, <<>>)
        ELSE IF ~Truthy(doc) \/ ~Truthy(items) THEN Linked(FALSE, FALSE, <<>>)
        ELSE IF ~IsIterable(items) THEN Linked(FALSE, FALSE, <<>>)
        ELSE IF stops = {} THEN Linked(FALSE, FALSE, <<>>)
        ELSE IF ThrowsOnRead(list[at]) THEN Linked(FALSE, FALSE, <<>>)
        ELSE IF serializeDocument(linked, clock).threw
        THEN Linked(FALSE, FALSE, <<>>)
        ELSE IF fault = "write" THEN Linked(FALSE, FALSE, <<>>)
        ELSE Linked(TRUE, TRUE, serializeDocument(linked, clock).lines)

\* The files of the companion app that linkItemToObsidian is run on: the
\* documents above, documents of two items, and files without an item list.
PlainTask == Item(<<"i", "d">>, <<"a">>)
LinkPool ==
    {PlainTask, RtEvent, WithKey(PlainTask, "x_custom", Str(<<"c">>)),
     RtTask(<<"a">>, Str(RtDate), Undef, Undef, Undef, Undef), Null}
LinkDocuments ==
    RtDocuments
    \cup {NewDocument(Timezone, 0, <<a, b>>) : a \in LinkPool, b \in LinkPool}
    \cup {Null, Obj([opentime_version |-> Str(Version02)]),
          Obj([opentime_version |-> Str(Version02), items |-> Null])}
LinkIds == {<<"i", "d">>, <<"e", "v">>, <<"n", "o">>}
LinkFaults == {"none", "read", "write"}

InitRT ==
    /\ dirs = {}
    /\ files = <<>>
    /\ plist = <<>>
    /\ pending = NoCall
    /\ last = NoCall
    /\ now = 0
    /\ vault = <<>>
    /\ autoExport = FALSE
    /\ runs = <<>>
    /\ history = <<>>
    /\ rt \in {[op |-> "document", doc |-> d] : d \in RtDocuments}
               \cup {[op |-> "file", doc |-> d] : d \in LinkDocuments}
    /\ fn = NoCall
    /\ modal = NoModal
    /\ editor = <<>>

RtFrame == UNCHANGED <<dirs, files, plist, pending, last, now, vault,
                       autoExport, runs, history, fn, modal, editor>>

Serialize ==
    /\ rt.op = "document"
    /\ rt' = [op |-> "serialized", doc |-> rt.doc,
              first |-> serializeDocument(rt.doc, now)]
    /\ RtFrame

Decode ==
    /\ rt.op = "serialized"
    /\ ~rt.first.threw
    /\ rt' = [op |-> "decoded", doc |-> rt.doc, first |-> rt.first,
              decoded |-> yamlLoadText(rt.first.lines)]
    /\ RtFrame

Reserialize ==
    /\ rt.op = "decoded"
    /\ rt.decoded.ok
    /\ rt' = [op |-> "reserialized", doc |-> rt.doc, first |-> rt.first,
              decoded |-> rt.decoded,
              second |-> serializeDocument(rt.decoded.doc, now)]
    /\ RtFrame

LinkItem(itemId, fault) ==
    /\ rt.op = "file"
    /\ rt' = [op |-> "linked", doc |-> rt.doc, itemId |-> itemId,
              fault |-> fault,
              out |-> linkItemToObsidian(rt.doc, itemId, ObsidianInfo, now,
                                         fault)]
    /\ RtFrame

NextRT ==
    \/ Serialize
    \/ Decode
    \/ Reserialize
    \/ \E itemId \in LinkIds, fault \in LinkFaults : LinkItem(itemId, fault)

SpecRT == InitRT /\ [][NextRT]_vars

(***************************************************************************)
(* The claims about single-file export.  In the state a finished            *)
(* exportSingleFile leaves, A is the prior item list it decoded, B the      *)
(* list it was handed and W the list of the document it built.              *)
(***************************************************************************)
SingleDone == last.op = "exportSingleFile"
SingleWrote == SingleDone /\ last.ret
ListA == Elements(last.existingItems)
ListB == last.items
ListW == last.document.f.items.e
Ids(list) == {ItemId(list[i]) : i \in DOMAIN list}
NoRepeatedId(list) == Cardinality(Ids(list)) = Len(list)
LastOfItsId(list, i) ==
    \A j \in DOMAIN list : j > i => ItemId(list[j]) # ItemId(list[i])
CommonIds == Ids(ListA) \cap Ids(ListB)
LastPath == FullPath(normalizePath(last.folder), last.filename \o DotOt)
\* the items of the destination file as the next export will decode them
FileItems == Elements(ExistingItemsOf(yamlLoad(files[LastPath])))

\* C1, as stated: the written list has |A| + |B| - k items, k the number of
\* ids the two lists share, and for every shared id the written item is B's.
C1_MergeIdentityAsStated ==
    SingleWrote =>
        /\ Len(ListW) = Len(ListA) + Len(ListB) - Cardinality(CommonIds)
        /\ \A i \in DOMAIN ListW :
               ItemId(ListW[i]) \in CommonIds =>
                   \E j \in DOMAIN ListB : ListW[i] = ListB[j]

\* C1, amended: the written list has one item per distinct id of A and B,
\* which is |A| + |B| - k items when neither list repeats an id, and for
\* every id of B the written item is B's last item with that id.
C1_MergeIdentity ==
    SingleWrote =>
        /\ Len(ListW) = Cardinality(Ids(ListA) \cup Ids(ListB))
        /\ (NoRepeatedId(ListA) /\ NoRepeatedId(ListB)) =>
               Len(ListW) = Len(ListA) + Len(ListB) - Cardinality(CommonIds)
        /\ \A j \in DOMAIN ListB :
               LastOfItsId(ListB, j) =>
                   \A i \in DOMAIN ListW :
                       ItemId(ListW[i]) = ItemId(ListB[j]) => ListW[i] = ListB[j]
        /\ \A j \in DOMAIN ListB : \E i \in DOMAIN ListW :
               ItemId(ListW[i]) = ItemId(ListB[j])

\* A merge of two prior items and two new ones that share one id.
C1_Witness ==
    /\ SingleWrote
    /\ NoRepeatedId(ListA) /\ NoRepeatedId(ListB)
    /\ Len(ListA) = 2 /\ Len(ListB) = 2
    /\ Cardinality(CommonIds) = 1
    /\ Len(ListW) = 3

\* C3, as stated: every prior item whose id is not among the new items' ids
\* is in the written list, unchanged.
C3_PriorPreservedAsStated ==
    SingleWrote =>
        \A i \in DOMAIN ListA :
            ItemId(ListA[i]) \notin Ids(ListB) =>
                \E j \in DOMAIN ListW : ListW[j] = ListA[i]

\* C3, amended: every prior item whose id is not among the new items' ids,
\* and that no later prior item shares its id with, is in the written list,
\* unchanged.
C3_PriorPreserved ==
    SingleWrote =>
        \A i \in DOMAIN ListA :
            (ItemId(ListA[i]) \notin Ids(ListB) /\ LastOfItsId(ListA, i)) =>
                \E j \in DOMAIN ListW : ListW[j] = ListA[i]

\* An export of new items into a file that holds an item of another id.
C3_Witness ==
    /\ SingleWrote
    /\ ListB # <<>>
    /\ \E i \in DOMAIN ListA :
           /\ ItemId(ListA[i]) \notin Ids(ListB)
           /\ \E j \in DOMAIN ListW : ListW[j] = ListA[i]

\* A document whose items value is a list of mappings.
IsItemList(doc) ==
    /\ doc.t = "map"
    /\ GetProp(doc, "items").t = "seq"
    /\ \A i \in DOMAIN GetProp(doc, "items").e : GetProp(doc, "items").e[i].t = "map"

ForeignShape(content) == content.kind = "garbage" \/ ~IsItemList(content.doc)

\* C4, as stated: when the destination file exists and does not parse, or
\* parses to a foreign shape, and no file-system call fails, the export
\* returns true, takes the prior list as empty and writes the new items.
C4_DecodeTolerance ==
    (/\ SingleDone
     /\ last.failed \subseteq {"decode", "merge"}
     /\ LastPath \in DOMAIN last.before
     /\ ForeignShape(last.before[LastPath])) =>
        /\ last.ret
        /\ ListW = MergeItems(Arr(<<>>), ListB)
        /\ files[LastPath] = OpenTimeExporter_export(last.document)

\* C7: the document a single-file export builds, and the file it writes,
\* hold no two items with one id.
C7_UniqueIds ==
    /\ (SingleDone /\ last.document # NoDocument) => NoRepeatedId(ListW)
    /\ SingleWrote => NoRepeatedId(FileItems)

\* A merge where the prior file and the new list each repeat an id.
C7_Witness ==
    /\ SingleWrote
    /\ ~NoRepeatedId(ListA)
    /\ ~NoRepeatedId(ListB)
    /\ Len(ListW) >= 2

HasExtension(item, k) == item.t = "map" /\ k \in DOMAIN item.f

ExtensionKept(item, k) ==
    \E j \in DOMAIN FileItems :
        /\ ItemId(FileItems[j]) = ItemId(item)
        /\ GetProp(FileItems[j], k) = item.f[k]

WriteCount(io) == Cardinality({i \in DOMAIN io : io[i] = "writeFileSync"})

WriteIsLast ==
    /\ WriteCount(last.io) <= 1
    /\ \A i \in DOMAIN last.io : last.io[i] = "writeFileSync" => i = Len(last.io)
    /\ WriteCount(last.io) = 1 =>
           /\ last.document # NoDocument
           /\ last.failed \cap {"getFs", "mkdir", "merge", "serialize"} = {}

\* C10, as stated: the file is written at most once, after every other step,
\* and when folder creation, decode, merge or serialization fails the files
\* are what they were and the call returns false.
C10_WrittenOnceAsStated ==
    SingleDone =>
        /\ WriteIsLast
        /\ last.failed \cap {"mkdir", "decode", "merge", "serialize"} # {} =>
               ~last.ret /\ files = last.before

\* C10, amended: ... when folder creation, merge or serialization fails the
\* files are what they were and the call returns false; a failed read or
\* decode of the existing file does not fail the call, which then writes the
\* document built from the new items alone.
C10_WrittenOnce ==
    SingleDone =>
        /\ WriteIsLast
        /\ last.failed \cap {"getFs", "mkdir", "merge", "serialize"} # {} =>
               ~last.ret /\ files = last.before
        /\ last.failed = {"decode"} =>
               /\ last.ret
               /\ ListW = MergeItems(Arr(<<>>), ListB)
               /\ files = (LastPath :> OpenTimeExporter_export(last.document))
                              @@ last.before

\* The serializer, or the merge, threw over a file that was there.
C10_Witness ==
    /\ SingleDone
    /\ last.failed \cap {"merge", "serialize"} # {}
    /\ LastPath \in DOMAIN last.before
    /\ ~last.ret

\* C5: with an empty destination folder exportItems and exportItem return
\* false without a preference lookup, a folder creation, a read or a write;
\* the preference read is started only for a folder that is set.
C5_NoIoWithoutFolder ==
    /\ (last # NoCall /\ last.folder = <<>>) =>
           /\ ~last.ret
           /\ last.io = <<>>
           /\ files = last.before
    /\ pending # NoCall => pending.folder # <<>>

\* exportItems was called with items and no folder while the folder of an
\* earlier export holds files.
C5_Witness ==
    /\ last # NoCall
    /\ last.op = "exportItems"
    /\ last.folder = <<>>
    /\ last.items # <<>>
    /\ files # <<>>

\* C2, as stated: two export runs that parsed the same unchanged note give
\* its items the same ids, and the later of two consecutive such runs leaves
\* no more items in the destination file than the earlier one did.
C2_IdStable ==
    \A i, j \in DOMAIN history :
        (i < j /\ history[i].seen = history[j].seen) =>
            /\ history[i].ids = history[j].ids
            /\ (j = i + 1 /\ history[i].wrote /\ history[j].wrote) =>
                   history[j].count <= history[i].count

\* C6, as stated: at most one exportAll / exportFile is in flight.
C6_OneInFlight == Len(runs) <= 1

\* C8, as stated: a document of modelled fields serializes, its text
\* decodes, and the decoded document serializes to the same text.
C8_RoundTrip ==
    /\ rt.op = "serialized" => ~rt.first.threw
    /\ rt.op = "decoded" => rt.decoded.ok
    /\ rt.op = "reserialized" => ~rt.second.threw /\ rt.second = rt.first

(***************************************************************************)
(* The exporter's operations under file-system faults, and per-item export. *)
(***************************************************************************)
ApiDone == last # NoCall
PerItemDone == last # NoCall /\ last.op = "exportPerItem"
ItemPath(folder, item) ==
    FullPath(normalizePath(folder),
             sanitizedFilename(GetProp(item, "title").v, GetProp(item, "type").v))
Written(i) == last.rets[i]

LastWriter(i) ==
    CHOOSE j \in DOMAIN last.items :
        /\ Written(j)
        /\ ItemPath(last.folder, last.items[j]) = ItemPath(last.folder, last.items[i])
        /\ \A k \in DOMAIN last.items :
               (Written(k) /\ ItemPath(last.folder, last.items[k])
                                = ItemPath(last.folder, last.items[i])) => k <= j

\* Every item was attempted, and what each successful export wrote is on
\* disk unless a later successful export of the list took the same name.
AllAttempted ==
    /\ Len(last.rets) = Len(last.items)
    /\ \A i \in DOMAIN last.items :
           Written(i) =>
               /\ ItemPath(last.folder, last.items[i]) \in DOMAIN last.files
               /\ last.files[ItemPath(last.folder, last.items[i])] =
                      OpenTimeExporter_export(
                          NewDocument(Timezone, now, <<last.items[LastWriter(i)]>>))

\* C12, as stated: per-item export attempts every item whatever happened to
\* the items before it, keeps the earlier writes, and returns true if and
\* only if at least one item was written.
C12_PerItemAsStated ==
    PerItemDone =>
        /\ AllAttempted
        /\ last.ret <=> \E i \in DOMAIN last.rets : Written(i)

\* C12, amended: per-item export attempts every item whatever happened to
\* the items before it, keeps the earlier writes, and returns true if and
\* only if at least one item was written or the list is empty.
C12_PerItem ==
    PerItemDone =>
        /\ AllAttempted
        /\ last.ret <=> (last.items = <<>> \/ \E i \in DOMAIN last.rets : Written(i))

\* The first item's write failed, the second item was written, and the call
\* returned true.
C12_Witness ==
    /\ PerItemDone
    /\ Len(last.items) = 2
    /\ ~Written(1)
    /\ Written(2)
    /\ last.ret
    /\ "write" \in last.failed

\* C13, as stated: when exportPerItem has written every item of a list whose
\* ids are pairwise different, the items' files are pairwise different and
\* all on disk.
C13_OneFilePerItem ==
    (/\ PerItemDone
     /\ \A i \in DOMAIN last.rets : Written(i)
     /\ NoRepeatedId(last.items)) =>
        /\ Cardinality({ItemPath(last.folder, last.items[i]) :
                           i \in DOMAIN last.items}) = Len(last.items)
        /\ \A i \in DOMAIN last.items :
               ItemPath(last.folder, last.items[i]) \in DOMAIN last.files

(***************************************************************************)
(* The time-block parser (DayPlannerParser.ts).                             *)
(***************************************************************************)
EventIdPrefix == IdPrefix \o <<"_", "e", "v">>
DefaultDuration == 30
DefaultTimezone == Timezone

\* \d{1,2}:\d{2} at the head of s: the length of the match, 0 when none
TimeLen(s) ==
    LET d == LeadCount(s, Digits)
    IN  IF /\ d \in {1, 2}
           /\ Len(s) >= d + 3
           /\ s[d + 1] = ":"
           /\ s[d + 2] \in Digits
           /\ s[d + 3] \in Digits
        THEN d + 3 ELSE 0

\* \s+(.+)$ on s: the title group takes what follows the blanks, or the last
\* of two or more blanks when nothing else follows.
TitleGroup(s) ==
    LET w == LeadCount(s, WhiteSpace)
        rest == SubSeq(s, w + 1, Len(s))
        title == IF rest # <<>> THEN rest ELSE <<s[Len(s)]>>
    IN  IF /\ w >= 1
           /\ (rest # <<>> \/ w >= 2)
           /\ Range(title) \cap LineTerminators = {}
        THEN [ok |-> TRUE, title |-> title]
        ELSE [ok |-> FALSE]

\* ^(\s*)-?\s* : the line after its indentation, its optional hyphen and the
\* blanks that follow
AfterBullet(line) ==
    LET s1 == StripLead(line, WhiteSpace)
    IN  IF s1 # <<>> /\ Head(s1) = "-" THEN StripLead(Tail(s1), WhiteSpace)
        ELSE s1

\* TIME_RANGE_PATTERN
MatchRange(line) ==
    LET s == AfterBullet(line)
        t1 == TimeLen(s)
        s2 == StripLead(SubSeq(s, t1 + 1, Len(s)), WhiteSpace)
        s3 == IF s2 # <<>> THEN StripLead(Tail(s2), WhiteSpace) ELSE <<>>
        t2 == TimeLen(s3)
        g == TitleGroup(SubSeq(s3, t2 + 1, Len(s3)))
    IN  IF t1 > 0 /\ s2 # <<>> /\ Head(s2) = "-" /\ t2 > 0 /\ g.ok
        THEN [ok |-> TRUE, startTime |-> SubSeq(s, 1, t1),
              endTime |-> SubSeq(s3, 1, t2), title |-> g.title]
        ELSE [ok |-> FALSE]

\* SINGLE_TIME_PATTERN
MatchSingle(line) ==
    LET s == AfterBullet(line)
        t1 == TimeLen(s)
        g == TitleGroup(SubSeq(s, t1 + 1, Len(s)))
    IN  IF t1 > 0 /\ g.ok
        THEN [ok |-> TRUE, startTime |-> SubSeq(s, 1, t1), title |-> g.title]
        ELSE [ok |-> FALSE]

\* String.prototype.padStart(2, '0')
padStart2(s) == IF Len(s) < 2 THEN <<"0">> \o s ELSE s

normalizeTime(time) ==
    LET parts == Split(time, ":")
    IN  padStart2(parts[1]) \o <<":">> \o parts[2]

\* addMinutes with the bug of not wrapping the hours at midnight
addMinutes_NoWrap(time, minutes) ==
    LET parts == Split(time, ":")
        totalMinutes == ParseDigits(parts[1]) * 60 + ParseDigits(parts[2]) + minutes
    IN  padStart2(toString10(totalMinutes \div 60)) \o <<":">>
            \o padStart2(toString10(totalMinutes % 60))

addMinutes(time, minutes) ==
    LET parts == Split(time, ":")
        totalMinutes == ParseDigits(parts[1]) * 60 + ParseDigits(parts[2]) + minutes
        newHours == (totalMinutes \div 60) % 24
        newMinutes == totalMinutes % 60
    IN  padStart2(toString10(newHours)) \o <<":">> \o padStart2(toString10(newMinutes))

DayPlannerParser_parseLine(line, lineNumber) ==
    IF MatchRange(line).ok
    THEN [ok |-> TRUE, title |-> trim(MatchRange(line).title),
          startTime |-> normalizeTime(MatchRange(line).startTime),
          endTime |-> Str(normalizeTime(MatchRange(line).endTime)),
          lineNumber |-> lineNumber, originalText |-> line]
    ELSE IF MatchSingle(line).ok
    THEN [ok |-> TRUE, title |-> trim(MatchSingle(line).title),
          startTime |-> normalizeTime(MatchSingle(line).startTime),
          endTime |-> Undef,
          lineNumber |-> lineNumber, originalText |-> line]
    ELSE [ok |-> FALSE]

Seconds00 == <<":", "0", "0">>

DayPlannerParser_toOpenTimeEvent(parsed, date, defaultDuration, clock) ==
    LET endTime == IF Truthy(parsed.endTime) THEN parsed.endTime.v
                   ELSE addMinutes(parsed.startTime, defaultDuration)
    IN  Obj([type |-> Str(<<"e", "v", "e", "n", "t">>),
             id |-> Str(generateId(EventIdPrefix,
                                   date \o <<"_">> \o parsed.startTime, clock)),
             title |-> Str(parsed.title),
             start |-> Str(date \o <<"T">> \o parsed.startTime \o Seconds00),
             end |-> Str(date \o <<"T">> \o endTime \o Seconds00),
             timezone |-> Str(DefaultTimezone),
             x_obsidian |-> Obj([source_file |-> Str(NotePath),
                                 line_number |-> Num(parsed.lineNumber),
                                 original_text |-> Str(parsed.originalText)])])

\* filename.match(/(\d{4}-\d{2}-\d{2})/)?.[1]
extractDateFromFilename(filename) ==
    IF \E i \in DOMAIN filename : IsDateAt(filename, i)
    THEN Str(SubSeq(filename,
                    CHOOSE i \in DOMAIN filename :
                        IsDateAt(filename, i)
                        /\ \A j \in 1..(i - 1) : ~IsDateAt(filename, j),
                    9 + (CHOOSE i \in DOMAIN filename :
                             IsDateAt(filename, i)
                             /\ \A j \in 1..(i - 1) : ~IsDateAt(filename, j))))
    ELSE Undef

\* FileDate with the bug of ignoring the file name
FileDate_ExplicitOnly(date, basename) == date

\* date || this.extractDateFromFilename(file.basename)
FileDate(date, basename) ==
    IF Truthy(date) THEN date ELSE extractDateFromFilename(basename)

RECURSIVE EventsFrom(_, _, _, _, _)
EventsFrom(lines, index, date, defaultDuration, clock) ==
    IF index > Len(lines) THEN <<>>
    ELSE (IF DayPlannerParser_parseLine(lines[index], index).ok
          THEN <<DayPlannerParser_toOpenTimeEvent(
                     DayPlannerParser_parseLine(lines[index], index), date,
                     defaultDuration, clock)>>
          ELSE <<>>)
         \o EventsFrom(lines, index + 1, date, defaultDuration, clock)

\* parseFile of a parser that was constructed with defaultDuration
DayPlannerParser_parseFile(lines, basename, date, defaultDuration, clock) ==
    IF ~Truthy(FileDate(date, basename)) THEN <<>>
    ELSE EventsFrom(lines, 1, FileDate(date, basename).v, defaultDuration, clock)

(***************************************************************************)
(* The frontmatter parser (FrontmatterParser.ts), from the mapping that     *)
(* parseYaml made of the note's frontmatter; fm is null when the note has   *)
(* no frontmatter or parseYaml threw.                                       *)
(***************************************************************************)
\* fm.type.toLowerCase() of a type that parseYaml made a number, a boolean
\* or a list: toLowerCase is not a function
determineTypeThrows(fm) ==
    Truthy(GetProp(fm, "type")) /\ GetProp(fm, "type").t # "str"

determineType(fm) ==
    IF Truthy(GetProp(fm, "type")) THEN Str(toLowerCase(GetProp(fm, "type").v))
    ELSE IF Truthy(GetProp(fm, "due")) \/ Truthy(GetProp(fm, "status"))
    THEN Str(TaskType)
    ELSE IF Truthy(GetProp(fm, "start")) /\ Truthy(GetProp(fm, "end"))
    THEN Str(<<"e", "v", "e", "n", "t">>)
    ELSE IF /\ Truthy(GetProp(fm, "date"))
            /\ (Truthy(GetProp(fm, "startTime")) \/ Truthy(GetProp(fm, "endTime")))
    THEN Str(<<"e", "v", "e", "n", "t">>)
    ELSE IF Truthy(GetProp(fm, "target_date")) \/ GetProp(fm, "progress") # Undef
    THEN Str(<<"g", "o", "a", "l">>)
    ELSE IF Truthy(GetProp(fm, "frequency"))
    THEN Str(<<"h", "a", "b", "i", "t">>)
    ELSE Null

ItemTypes == {TaskType, <<"e", "v", "e", "n", "t">>, <<"g", "o", "a", "l">>,
              <<"h", "a", "b", "i", "t">>}

\* the id prefix each of toTask, toEvent, toGoal and toHabit hands to generateId
TypeIdPrefix(type) ==
    IdPrefix \o <<"_">> \o
        (IF type = <<"e", "v", "e", "n", "t">> THEN <<"e", "v">> ELSE type)

\* parseFile: the result is null, an item, or a TypeError when the type or
\* the title, the status or the frequency that parseYaml made is not a
\* string (toLowerCase is not a function); at names the call that threw.
\* Of the item the fields every type has are modelled.
FrontmatterParser_parseFile(fm, basename, clock) ==
    LET type == determineType(fm)
        title == IF Truthy(GetProp(fm, "title")) THEN GetProp(fm, "title")
                 ELSE Str(basename)
    IN  IF ~Truthy(fm) THEN [raised |-> FALSE, at |-> "none", item |-> Null]
        ELSE IF determineTypeThrows(fm)
        THEN [raised |-> TRUE, at |-> "determineType", item |-> Null]
        ELSE IF type = Null \/ type.v \notin ItemTypes
        THEN [raised |-> FALSE, at |-> "none", item |-> Null]
        ELSE IF title.t # "str"
        THEN [raised |-> TRUE, at |-> "generateId", item |-> Null]
        ELSE IF /\ type.v = TaskType
                /\ GetProp(fm, "status").t \notin {"undefined", "null", "str"}
        THEN [raised |-> TRUE, at |-> "toTask", item |-> Null]
        ELSE IF /\ type.v = <<"h", "a", "b", "i", "t">>
                /\ Truthy(GetProp(fm, "frequency"))
                /\ GetProp(fm, "frequency").t # "str"
        THEN [raised |-> TRUE, at |-> "toHabit", item |-> Null]
        ELSE [raised |-> FALSE, at |-> "none",
              item |-> Obj([type |-> type,
                            id |-> Str(generateId(TypeIdPrefix(type.v), title.v,
                                                  clock)),
                            title |-> title,
                            x_obsidian |-> Obj([source_file |-> Str(NotePath)])])]

(***************************************************************************)
(* The naming functions and the parsers, each called on its own with texts  *)
(* of the user's writing.                                                   *)
(***************************************************************************)
TitleChars == {"A", "b", " ", "_", "-", "#", "1"}
LongHead(n) == [i \in 1..n |-> "a"]
TitleHeads == {<<>>, LongHead(MaxFilenameLen - 2), LongHead(MaxFilenameLen - 1)}
ReviewTitle == <<"R", "e", "v", "i", "e", "w", " ", "P", "R", " ",
                 "#", "1", "2", "3", "!">>
UntitledTitle == <<"U", "n", "t", "i", "t", "l", "e", "d">>
FnTitles ==
    {h \o t : h \in TitleHeads, t \in SeqsUpTo(TitleChars, MaxTitle)}
        \cup {ReviewTitle, UntitledTitle}
EventType == <<"E", "v", "e", "n", "t">>
IdHeads == {<<>>, LongHead(MaxIdTitle - 2), LongHead(MaxIdTitle - 1)}
IdTitles == {h \o t : h \in IdHeads, t \in SeqsUpTo(TitleChars, MaxTitle)}
\* readings of the clock on both sides of a carry of the base-36 numeral
Instants == {0, 35, 36}
FnTypes == {TaskType, EventType}

Date1 == <<"2", "0", "2", "5", "-", "0", "1", "-", "1", "5">>
Date2 == <<"2", "0", "2", "4", "-", "1", "2", "-", "3", "1">>
TodoBox == <<"-", " ", "[", " ", "]", " ">>

\* The pieces a checkbox line's content is made of: a word, a blank, a
\* hash-tag, date markers, the recurrence marker and the priority emojis.
Pieces ==
    {<<"a">>, <<" ">>, <<"#", "t">>,
     <<CalendarEmoji, " ">> \o Date1,
     <<HourglassEmoji>> \o Date2,
     <<RepeatEmoji, " ", "d">>,
     <<"doubleup">>, <<"redtriangle">>, <<"upbutton">>, <<"downbutton">>}
RECURSIVE Flatten(_)
Flatten(seqs) == IF seqs = <<>> THEN <<>> ELSE Head(seqs) \o Flatten(Tail(seqs))
Contents == {Flatten(ps) : ps \in SeqsUpTo(Pieces, MaxTokens)}
RichLines == {TodoBox \o c : c \in Contents}

\* The lines of a note: checkbox lines, time-block lines and lines that are
\* neither.
TaskLines ==
    {LineTodo,
     <<" ", "-", " ", "[", "X", "]", " ", "B", " ", "#", "t">>,
     <<"-", "[", "x", "]", "c">>,
     <<"-", " ", "[", "y", "]", " ", "a">>,
     <<"-", " ", "[", " ", "]", " ", "a", "\r">>,
     LineText}
BlockLines ==
    {<<"0", "9", ":", "0", "0", " ", "U", "p">>,
     <<"-", " ", "9", ":", "0", "5", " ", "-", " ", "1", "0", ":", "0", "0",
       " ", "G", "o">>,
     <<"2", "3", ":", "4", "5", " ", "x">>,
     <<"1", "0", ":", "0", "0", " ", " ">>,
     <<"1", "0", ":", "0", "0", " ", "-", " ", "n">>,
     <<" ", "7", ":", "5", "9", " ", "z">>,
     <<"8", ":", "0", "0", "-", "9", ":", "3", "0", " ", "k">>,
     <<"9", "9", ":", "9", "9", " ", "z">>,
     LineText}
TaskNotes == SeqsUpTo(TaskLines, MaxNoteLines) \cup {<<l>> : l \in RichLines}
BlockNotes == SeqsUpTo(BlockLines, MaxNoteLines)
Basenames == {<<"n">>, Date1, <<"d">> \o Date2 \o <<" ">> \o Date1}
ExplicitDates == {Undef, Str(<<>>), Str(Date2)}
\* positions of the settings tab's duration slider (15 to 120 in steps of 15)
Durations == {15, DefaultDuration, 120}

\* What parseYaml makes of a note's frontmatter.
FmTitles == {<<>>, [title |-> Str(<<>>)], [title |-> Str(<<"T">>)],
             [title |-> Num(12)]}
FmTypes == {<<>>, [type |-> Str(<<"T", "a", "s", "k">>)],
            [type |-> Str(<<"g", "o", "a", "l">>)],
            [type |-> Str(<<"n", "o", "t", "e">>)], [type |-> Num(5)]}
FmHints ==
    {<<>>, [due |-> Str(Date1)], [status |-> Str(<<"d", "o", "n", "e">>)],
     [status |-> Bool(TRUE)],
     [start |-> Str(Date1), end |-> Str(Date1)], [start |-> Str(Date1)],
     [date |-> Str(Date1), startTime |-> Str(<<"0", "9", ":", "0", "0">>)],
     [date |-> Str(Date1)], [target_date |-> Str(Date1)],
     [progress |-> Num(0)], [frequency |-> Str(<<"d", "a", "i", "l", "y">>)],
     [due |-> Null, frequency |-> Str(<<"d", "a", "i", "l", "y">>)],
     [progress |-> Null]}
Frontmatters ==
    {Null, Str(<<"h", "i">>)}
        \cup {Obj(t @@ y @@ h) : t \in FmTitles, y \in FmTypes, h \in FmHints}
FmBasenames == {<<"n">>, <<>>}

\* The scalars handed to the serializer's quote: a letter, specials, blanks,
\* the hyphen, the double quote and the backslash.
ScalarChars == {"a", ":", " ", "\t", "\n", "-", "\"", "\\", Backtick}
Scalars == SeqsUpTo(ScalarChars, MaxTitle)

InitFn ==
    /\ dirs = {}
    /\ files = <<>>
    /\ plist = <<>>
    /\ pending = NoCall
    /\ last = NoCall
    /\ PluginIdle

FnFrame == UNCHANGED <<dirs, files, plist, pending, last, now, vault,
                       autoExport, runs, history, rt, modal, editor>>

SanitizeCall(title, type) ==
    /\ fn = NoCall
    /\ fn' = [op |-> "sanitizedFilename", title |-> title, type |-> type,
              out |-> sanitizedFilename(title, type)]
    /\ FnFrame

\* generateId, and a second call of it with the same arguments at another
\* reading of the clock.
GenerateIdCall(prefix, title, clock) ==
    /\ fn = NoCall
    /\ fn' = [op |-> "generateId", prefix |-> prefix, title |-> title,
              clock |-> clock, out |-> generateId(prefix, title, clock)]
    /\ FnFrame

GenerateIdAgain(clock) ==
    /\ fn # NoCall
    /\ fn.op = "generateId"
    /\ fn' = [op |-> "generateIdTwice", prefix |-> fn.prefix,
              title |-> fn.title, clock |-> fn.clock, out |-> fn.out,
              clock2 |-> clock,
              out2 |-> generateId(fn.prefix, fn.title, clock)]
    /\ FnFrame

\* The three parsers, each on a note of its own.
TasksParseCall(lines) ==
    /\ fn = NoCall
    /\ fn' = [op |-> "TasksParser", lines |-> lines,
              out |-> TasksParser_parseFile(lines, now)]
    /\ FnFrame

DayPlannerParseCall(lines, basename, date, defaultDuration) ==
    /\ fn = NoCall
    /\ fn' = [op |-> "DayPlannerParser", lines |-> lines,
              basename |-> basename, date |-> date,
              defaultDuration |-> defaultDuration,
              out |-> DayPlannerParser_parseFile(lines, basename, date,
                                                 defaultDuration, now)]
    /\ FnFrame

FrontmatterParseCall(fm, basename) ==
    /\ fn = NoCall
    /\ \E r \in {FrontmatterParser_parseFile(fm, basename, now)} :
           fn' = [op |-> "FrontmatterParser", fm |-> fm, basename |-> basename,
                  raised |-> r.raised, at |-> r.at,
                  out |-> IF r.item = Null THEN <<>> ELSE <<r.item>>]
    /\ FnFrame

\* ElysiumItemReader.quote on a string
QuoteCall(value) ==
    /\ fn = NoCall
    /\ fn' = [op |-> "quote", value |-> value, out |-> quote(Str(value))]
    /\ FnFrame

\* The caller takes what the function returned.
FnReturn ==
    /\ fn # NoCall
    /\ fn' = NoCall
    /\ FnFrame

\* A call starts when no call is under way.
NextFn ==
    \/ /\ fn = NoCall
       /\ \E title \in FnTitles, type \in FnTypes : SanitizeCall(title, type)
    \/ /\ fn = NoCall
       /\ \E title \in IdTitles, clock \in Instants :
              GenerateIdCall(TaskIdPrefix, title, clock)
    \/ \E clock \in Instants : GenerateIdAgain(clock)
    \/ /\ fn = NoCall
       /\ \E lines \in TaskNotes : TasksParseCall(lines)
    \/ /\ fn = NoCall
       /\ \E lines \in BlockNotes, basename \in Basenames, date \in ExplicitDates,
             defaultDuration \in Durations :
              DayPlannerParseCall(lines, basename, date, defaultDuration)
    \/ /\ fn = NoCall
       /\ \E fm \in Frontmatters, basename \in FmBasenames :
              FrontmatterParseCall(fm, basename)
    \/ /\ fn = NoCall
       /\ \E value \in Scalars : QuoteCall(value)
    \/ FnReturn

SpecFn == InitFn /\ [][NextFn]_vars

(***************************************************************************)
(* The file name of an item.                                                *)
(***************************************************************************)
SanitizeDone == fn # NoCall /\ fn.op = "sanitizedFilename"
NameHead == ElysiumPrefix \o toLowerCase(fn.type) \o <<"-">>
NameBody == SubSeq(fn.out, Len(NameHead) + 1, Len(fn.out) - Len(DotOt))
AlphaNum == LowerAlpha \cup Digits
NothingSurvives(title) ==
    \A i \in DOMAIN title : LowerChar(title[i]) \notin AlphaNum
IsPrefix(s, t) == Len(s) <= Len(t) /\ s = SubSeq(t, 1, Len(s))
NameShape ==
    /\ fn.out = NameHead \o NameBody \o DotOt
    /\ NameBody # <<>>
    /\ Len(NameBody) <= 50
    /\ Range(NameBody) \subseteq SafeChars
    /\ \A i \in 1..(Len(NameBody) - 1) :
           ~(NameBody[i] = "-" /\ NameBody[i + 1] = "-")
    /\ NameBody[1] # "-"
    /\ NameBody[Len(NameBody)] # "-"
ReviewName ==
    <<"e", "l", "y", "s", "i", "u", "m", "-", "t", "a", "s", "k", "-",
      "r", "e", "v", "i", "e", "w", "-", "p", "r", "-", "1", "2", "3",
      ".", "o", "t">>

\* C14, as stated: the file name is 'elysium-' + lower-cased type + '-' + s
\* + '.ot' with s non-empty, at most 50 characters of [a-z0-9-], without
\* adjacent, leading or trailing hyphens, and s is 'untitled' exactly when
\* no letter or digit of the title survives.
C14_FilenameAsStated ==
    SanitizeDone =>
        /\ NameShape
        /\ NameBody = Untitled <=> NothingSurvives(fn.title)

\* C14, amended: the file name is 'elysium-' + lower-cased type + '-' + s +
\* '.ot' with s non-empty, at most 50 characters of [a-z0-9-], without
\* adjacent, leading or trailing hyphens; s is 'untitled' when no letter or
\* digit of the title survives, and otherwise its letters and digits are the
\* first ones of the lower-cased title (which may themselves spell
\* 'untitled'); 'Review PR #123!' of type task gives
\* elysium-task-review-pr-123.ot.
C14_Filename ==
    SanitizeDone =>
        /\ NameShape
        /\ NothingSurvives(fn.title) => NameBody = Untitled
        /\ ~NothingSurvives(fn.title) =>
               IsPrefix(Keep(NameBody, AlphaNum),
                        Keep(toLowerCase(fn.title), AlphaNum))
        /\ (fn.title = ReviewTitle /\ fn.type = TaskType) => fn.out = ReviewName

\* A title longer than 50 characters whose cut ended on a hyphen.
C14_Witness ==
    /\ SanitizeDone
    /\ Len(fn.title) > MaxFilenameLen
    /\ Len(NameBody) = MaxFilenameLen - 1
    /\ fn.title[MaxFilenameLen] \in {" ", "_", "-"}

(***************************************************************************)
(* The identity generator.                                                  *)
(***************************************************************************)
IdDone == fn # NoCall /\ fn.op \in {"generateId", "generateIdTwice"}
IdHead == fn.prefix \o <<"_">>
IdTail == <<"_">> \o toString36(fn.clock)
IdSlug == SubSeq(fn.out, Len(IdHead) + 1, Len(fn.out) - Len(IdTail))

\* the lower-cased title with every run of other characters than letters
\* and digits turned into one hyphen
RECURSIVE Hyphenated(_)
Hyphenated(s) ==
    IF s = <<>> THEN <<>>
    ELSE IF LowerChar(Head(s)) \in AlphaNum
         THEN <<LowerChar(Head(s))>> \o Hyphenated(Tail(s))
         ELSE IF Len(s) > 1 /\ LowerChar(s[2]) \notin AlphaNum
              THEN Hyphenated(Tail(s))
              ELSE <<"-">> \o Hyphenated(Tail(s))
Unhyphened(s) ==
    SubSeq(s, IF s # <<>> /\ s[1] = "-" THEN 2 ELSE 1,
              IF Len(s) > 1 /\ s[Len(s)] = "-" THEN Len(s) - 1 ELSE Len(s))

\* C15: generateId returns prefix + '_' + slug + '_' + the clock in base
\* 36, where slug is the lower-cased title with every non-alphanumeric run
\* replaced by one hyphen, the leading and the trailing hyphen stripped, cut
\* at 40 characters; two calls with one prefix and one title at different
\* readings of the clock return different ids.
C15_IdShape ==
    /\ IdDone =>
           /\ fn.out = IdHead \o IdSlug \o IdTail
           /\ Len(IdSlug) <= 40
           /\ IdSlug = SubSeq(Unhyphened(Hyphenated(fn.title)), 1, Len(IdSlug))
           /\ Len(IdSlug) < 40 => IdSlug = Unhyphened(Hyphenated(fn.title))
    /\ (fn # NoCall /\ fn.op = "generateIdTwice" /\ fn.clock # fn.clock2) =>
           fn.out # fn.out2

\* Two calls for a title of more than 40 characters at two readings of the
\* clock whose numerals differ in length.
C15_Witness ==
    /\ fn # NoCall
    /\ fn.op = "generateIdTwice"
    /\ Len(fn.title) > MaxIdTitle
    /\ fn.clock = 35
    /\ fn.clock2 = 36
    /\ Len(IdSlug) = MaxIdTitle
    /\ fn.out # fn.out2

(***************************************************************************)
(* The parsers' items.                                                      *)
(***************************************************************************)
ParserDone ==
    fn # NoCall /\ fn.op \in {"TasksParser", "DayPlannerParser", "FrontmatterParser"}
TasksDone == fn # NoCall /\ fn.op = "TasksParser"
BlocksDone == fn # NoCall /\ fn.op = "DayPlannerParser"
TitleOf(item) == GetProp(item, "title").v
Provenance(item, k) == GetProp(GetProp(item, "x_obsidian"), k)
TextOf(item) == Provenance(item, "original_text").v
LineOf(item) == Provenance(item, "line_number").v

\* C16, as stated: no item that the checkbox parser, the time-block parser or
\* the frontmatter parser emits has the empty string as its title.
C16_TitleNonEmpty ==
    ParserDone => \A i \in DOMAIN fn.out : TitleOf(fn.out[i]) # <<>>

\* the tokens that parseLine takes out of a title
DateEmojis == {CalendarEmoji, HourglassEmoji, AirplaneEmoji, CheckEmoji}
PriorityEmojis == HighEmojis \cup MediumEmojis \cup LowEmojis
HasDateMarker(s) ==
    \E i \in DOMAIN s : \E e \in DateEmojis : DateMatchLen(s, i, e) > 0
HasRecurrence(s) == \E i \in DOMAIN s : RecurMatchLen(s, i) > 0
HasPriorityEmoji(s) == Range(s) \cap PriorityEmojis # {}
HasTag(s) == TagsOf(s) # <<>>

\* C17, as stated: the title of every checkbox task is trimmed and holds no
\* date marker, no priority emoji, no recurrence token and no hash-tag,
\* however many of them the line holds.
C17_TitleStripped ==
    TasksDone =>
        \A i \in DOMAIN fn.out :
            /\ TitleOf(fn.out[i]) = trim(TitleOf(fn.out[i]))
            /\ ~HasDateMarker(TitleOf(fn.out[i]))
            /\ ~HasPriorityEmoji(TitleOf(fn.out[i]))
            /\ ~HasRecurrence(TitleOf(fn.out[i]))
            /\ ~HasTag(TitleOf(fn.out[i]))

\* the priority the claim gives to a line
ClassPriority(text) ==
    IF \E i \in DOMAIN text : text[i] \in HighEmojis THEN Num(9)
    ELSE IF \E i \in DOMAIN text : text[i] \in MediumEmojis THEN Num(5)
    ELSE IF \E i \in DOMAIN text : text[i] \in LowEmojis THEN Num(1)
    ELSE Undef

\* C18: a checkbox task has priority 9 when its line holds a high-priority
\* emoji, otherwise 5 when it holds the medium one, otherwise 1 when it
\* holds a low one, otherwise none, whatever the order of the emojis in the
\* text.
C18_PriorityTieBreak ==
    TasksDone =>
        \A i \in DOMAIN fn.out :
            GetProp(fn.out[i], "priority") = ClassPriority(TextOf(fn.out[i]))

\* A task whose line has a low emoji, then the medium one, then a high one.
C18_Witness ==
    /\ TasksDone
    /\ Len(fn.out) = 1
    /\ fn.lines[1] = TodoBox \o <<"downbutton", "upbutton", "redtriangle">>
    /\ GetProp(fn.out[1], "priority") = Num(9)

\* the character between the first pair of brackets of a line
BoxChar(line) ==
    line[1 + CHOOSE i \in DOMAIN line :
                 line[i] = "[" /\ \A j \in 1..(i - 1) : line[j] # "["]
CheckboxLines == {n \in DOMAIN fn.lines : MatchTask(fn.lines[n]).ok}

\* C19: the checkbox parser emits one task per line that matches the
\* checkbox pattern and nothing else, in line order; each task has the
\* 1-based number of its line and the unchanged line as provenance, and
\* status done when its checkbox holds x or X, todo otherwise.
C19_OneTaskPerLine ==
    TasksDone =>
        /\ Len(fn.out) = Cardinality(CheckboxLines)
        /\ \A i \in DOMAIN fn.out :
               /\ LineOf(fn.out[i]) \in CheckboxLines
               /\ TextOf(fn.out[i]) = fn.lines[LineOf(fn.out[i])]
               /\ Provenance(fn.out[i], "source_file") = Str(NotePath)
               /\ GetProp(fn.out[i], "status") =
                      (IF BoxChar(TextOf(fn.out[i])) \in {"x", "X"}
                       THEN Str(<<"d", "o", "n", "e">>)
                       ELSE Str(<<"t", "o", "d", "o">>))
        /\ \A i, j \in DOMAIN fn.out :
               i < j => LineOf(fn.out[i]) < LineOf(fn.out[j])

\* A note of two lines, the first not a checkbox line, the second one with
\* a capital X in its box.
C19_Witness ==
    /\ TasksDone
    /\ Len(fn.lines) = 2
    /\ Len(fn.out) = 1
    /\ LineOf(fn.out[1]) = 2
    /\ BoxChar(fn.lines[2]) = "X"
    /\ GetProp(fn.out[1], "status") = Str(<<"d", "o", "n", "e">>)

\* the first YYYY-MM-DD substring of a text
HasDate(text) == \E i \in DOMAIN text : IsDateAt(text, i)
FirstDate(text) ==
    LET i == CHOOSE k \in DOMAIN text :
                 IsDateAt(text, k) /\ \A j \in 1..(k - 1) : ~IsDateAt(text, j)
    IN  SubSeq(text, i, i + 9)
DateGiven == fn.date \notin {Undef, Str(<<>>)}
StartsOn(item, date) ==
    /\ IsPrefix(date \o <<"T">>, GetProp(item, "start").v)
    /\ IsPrefix(date \o <<"T">>, GetProp(item, "end").v)

\* C20: the time-block parser dates its events with the explicit date when
\* one is given, otherwise with the first YYYY-MM-DD substring of the file's
\* base name, and emits nothing when there is neither.
C20_DateResolution ==
    BlocksDone =>
        /\ DateGiven =>
               \A i \in DOMAIN fn.out : StartsOn(fn.out[i], fn.date.v)
        /\ (~DateGiven /\ HasDate(fn.basename)) =>
               \A i \in DOMAIN fn.out : StartsOn(fn.out[i], FirstDate(fn.basename))
        /\ (~DateGiven /\ ~HasDate(fn.basename)) => fn.out = <<>>
        /\ (DateGiven \/ HasDate(fn.basename)) =>
               Len(fn.out) = Cardinality({n \in DOMAIN fn.lines :
                                   DayPlannerParser_parseLine(fn.lines[n], n).ok})

\* No date was given, the base name holds two dates, and the events are on
\* the first of them.
C20_Witness ==
    /\ BlocksDone
    /\ ~DateGiven
    /\ fn.basename = <<"d">> \o Date2 \o <<" ">> \o Date1
    /\ Len(fn.out) = 2
    /\ StartsOn(fn.out[1], Date2)

(***************************************************************************)
(* The times of a time-block event.                                         *)
(***************************************************************************)
\* the line an event was made from, and the times written on it
SourceLine(item) == fn.lines[LineOf(item)]
WrittenStart(line) == SubSeq(AfterBullet(line), 1, TimeLen(AfterBullet(line)))
WrittenEnd(line) == MatchRange(line).endTime
HoursOf(time) == ParseDigits(SubSeq(time, 1, Len(time) - 3))
MinutesOf(time) == ParseDigits(SubSeq(time, Len(time) - 1, Len(time)))
ZeroPadded(time) == IF Len(time) = 4 THEN <<"0">> \o time ELSE time
TwoDigits(n) == <<DigitSeq[(n \div 10) + 1], DigitSeq[(n % 10) + 1]>>
\* a minute of the day as HH:MM
ClockText(minute) == TwoDigits(minute \div 60) \o <<":">> \o TwoDigits(minute % 60)
IsClockText(s) ==
    /\ Len(s) = 5
    /\ s[3] = ":"
    /\ {s[1], s[2], s[4], s[5]} \subseteq Digits
EventDate == IF DateGiven THEN fn.date.v ELSE FirstDate(fn.basename)
Stamp(date, time) == date \o <<"T">> \o time \o <<":", "0", "0">>
EndOfLine(line, d) ==
    IF MatchRange(line).ok THEN ZeroPadded(WrittenEnd(line))
    ELSE ClockText((60 * HoursOf(WrittenStart(line))
                    + MinutesOf(WrittenStart(line)) + d) % 1440)

\* C21: a time-block line with only a start time HH:MM, read with a default
\* duration of d minutes, gives an event that ends at minute
\* (60*HH + MM + d) mod 1440 of the same date; a line with a time range
\* gives an event that ends at the end time written; every start and end is
\* the date, 'T', a zero-padded HH:MM and ':00'.
C21_EndTime ==
    BlocksDone =>
        \A i \in DOMAIN fn.out :
            /\ IsClockText(ZeroPadded(WrittenStart(SourceLine(fn.out[i]))))
            /\ IsClockText(EndOfLine(SourceLine(fn.out[i]), fn.defaultDuration))
            /\ GetProp(fn.out[i], "start") =
                   Str(Stamp(EventDate,
                             ZeroPadded(WrittenStart(SourceLine(fn.out[i])))))
            /\ GetProp(fn.out[i], "end") =
                   Str(Stamp(EventDate,
                             EndOfLine(SourceLine(fn.out[i]), fn.defaultDuration)))

\* A block that starts at 23:45 on the last day of a year and lasts 30
\* minutes ends at 00:15 of the same date.
C21_Witness ==
    /\ BlocksDone
    /\ fn.defaultDuration = 30
    /\ fn.date = Str(Date2)
    /\ fn.lines = <<(<<"2", "3", ":", "4", "5", " ", "x">>)>>
    /\ Len(fn.out) = 1
    /\ GetProp(fn.out[1], "start") =
           Str(Date2 \o <<"T", "2", "3", ":", "4", "5", ":", "0", "0">>)
    /\ GetProp(fn.out[1], "end") =
           Str(Date2 \o <<"T", "0", "0", ":", "1", "5", ":", "0", "0">>)

(***************************************************************************)
(* The type of a frontmatter item.                                          *)
(***************************************************************************)
FmDone == fn # NoCall /\ fn.op = "FrontmatterParser"
Given(fm, k) == Truthy(GetProp(fm, k))
\* the type the claim infers from the fields of a frontmatter without type
InferredType(fm) ==
    IF Given(fm, "due") \/ Given(fm, "status") THEN Str(TaskType)
    ELSE IF Given(fm, "start") /\ Given(fm, "end")
    THEN Str(<<"e", "v", "e", "n", "t">>)
    ELSE IF Given(fm, "date") /\ (Given(fm, "startTime") \/ Given(fm, "endTime"))
    THEN Str(<<"e", "v", "e", "n", "t">>)
    ELSE IF Given(fm, "target_date") \/ GetProp(fm, "progress") # Undef
    THEN Str(<<"g", "o", "a", "l">>)
    ELSE IF Given(fm, "frequency") THEN Str(<<"h", "a", "b", "i", "t">>)
    ELSE Null
SameTypeName(a, b) ==
    a.t = "str" /\ b.t = "str" /\ toLowerCase(a.v) = toLowerCase(b.v)

\* C22, as stated: the frontmatter parser resolves the type of every
\* frontmatter it is given - to the explicit type field when there is one
\* (read without regard to case), otherwise to task when due or status has
\* a value, else event when start and end have, else event when date and
\* one of startTime and endTime have, else goal when target_date has a
\* value or progress is defined, else habit when frequency has a value - and
\* yields at most one item, of the resolved type, and nothing when no type
\* is resolved.
C22_TypeResolution ==
    FmDone =>
        /\ Len(fn.out) <= 1
        /\ fn.at # "determineType"
        /\ \A i \in DOMAIN fn.out :
               IF Given(fn.fm, "type")
               THEN SameTypeName(GetProp(fn.out[i], "type"), GetProp(fn.fm, "type"))
               ELSE GetProp(fn.out[i], "type") = InferredType(fn.fm)
        /\ (~Given(fn.fm, "type") /\ InferredType(fn.fm) = Null) => fn.out = <<>>

(***************************************************************************)
(* The quoting of a scalar.                                                 *)
(***************************************************************************)
QuoteDone == fn # NoCall /\ fn.op = "quote"
\* a text with a backslash put before each double quote and with each
\* newline written as backslash, n
BackslashEscaped(s) ==
    Flatten([i \in DOMAIN s |->
                 IF s[i] = "\"" THEN <<"\\", "\"">>
                 ELSE IF s[i] = "\n" THEN <<"\\", "n">>
                 ELSE <<s[i]>>])
InQuotes(s) == <<"\"">> \o BackslashEscaped(s) \o <<"\"">>
HasSpecial(s) == \E i \in DOMAIN s : s[i] \in SpecialChars
EdgeBlank(s) == s # <<>> /\ (s[1] \in WhiteSpace \/ s[Len(s)] \in WhiteSpace)
\* the conditions common to the claim and its amendment
QuotedAnyway(s) ==
    s = <<>> \/ HasSpecial(s) \/ EdgeBlank(s) \/ (\E i \in DOMAIN s : s[i] = "\n")
BeginsHyphenSpace(s) == Len(s) >= 2 /\ s[1] = "-" /\ s[2] = " "
BeginsHyphenBlank(s) == Len(s) >= 2 /\ s[1] = "-" /\ s[2] \in WhiteSpace

\* C23, as stated: quote puts a string in double quotes, with every double
\* quote and newline backslash-escaped, if and only if it is empty, holds a
\* special character, has leading or trailing whitespace, holds a newline
\* or begins with a hyphen and a space; any other string is returned bare
\* and unchanged.
C23_QuotingAsStated ==
    QuoteDone =>
        fn.out = (IF QuotedAnyway(fn.value) \/ BeginsHyphenSpace(fn.value)
                  THEN InQuotes(fn.value) ELSE fn.value)

\* C23, amended: quote puts a string in double quotes, with every double
\* quote and newline backslash-escaped, if and only if it is empty, holds a
\* special character, has leading or trailing whitespace, holds a newline
\* or begins with a hyphen followed by any whitespace character (a space, a
\* tab, a carriage return); any other string is returned bare and
\* unchanged.
C23_Quoting ==
    QuoteDone =>
        fn.out = (IF QuotedAnyway(fn.value) \/ BeginsHyphenBlank(fn.value)
                  THEN InQuotes(fn.value) ELSE fn.value)

\* A hyphen, a tab and a letter: the string is put in quotes.
C23_Witness ==
    /\ QuoteDone
    /\ fn.value = <<"-", "\t", "a">>
    /\ fn.out = <<"\"", "-", "\t", "a", "\"">>

(***************************************************************************)
(* The dispatch of exportItems on the companion app's export mode.          *)
(***************************************************************************)
ExportItemsDone ==
    last # NoCall /\ last.op \in {"exportItems", "exportSingleFile", "exportPerItem"}
\* what `defaults read` gave for a key: nothing when the key is absent
Stored(k) == IF k \in DOMAIN plist THEN trim(plist[k]) ELSE <<>>
\* the paths whose content the call changed
Touched == {p \in DOMAIN last.files :
                p \notin DOMAIN last.before \/ last.before[p] # last.files[p]}
SingleLayout ==
    /\ last.op = "exportSingleFile"
    /\ last.filename = (IF Stored("filename") = <<>> THEN DefaultFilename
                        ELSE Stored("filename"))
    /\ Touched \subseteq
           {FullPath(normalizePath(last.folder), last.filename \o DotOt)}
PerItemLayout ==
    /\ last.op = "exportPerItem"
    /\ Touched \subseteq
           {ItemPath(last.folder, last.items[i]) : i \in DOMAIN last.items}
PrefsRead ==
    /\ last.prefs.exportMode =
           (IF Stored("exportMode") = PerItemText THEN "per-item" ELSE "single")
    /\ last.prefs.singleFilename =
           (IF Stored("filename") = <<>> THEN DefaultFilename
            ELSE Stored("filename"))
    /\ last.prefs.folderPath =
           (IF Stored("customPath") = <<>> THEN Undef
            ELSE Str(Stored("customPath")))
OneLayout ==
    /\ last.op \in {"exportSingleFile", "exportPerItem"}
    /\ PrefsRead
    /\ IF last.prefs.exportMode = "per-item" THEN PerItemLayout ELSE SingleLayout

\* C24, as stated: every call of exportItems runs exactly one of the two
\* layouts, the per-item one if and only if the mode read from the companion
\* app is per-item and otherwise the single-file one under the preferred
\* file name; a key that is absent or unreadable gives mode single, file
\* name elysium-schedule and no folder path.
C24_DispatchAsStated == ExportItemsDone => OneLayout

\* C24, amended: a call of exportItems with no folder configured runs
\* neither layout and returns false; every other call runs exactly one of
\* the two layouts, the per-item one if and only if the mode read from the
\* companion app is per-item and otherwise the single-file one under the
\* preferred file name; a key that is absent or unreadable gives mode
\* single, file name elysium-schedule and no folder path.
C24_Dispatch ==
    ExportItemsDone =>
        IF FolderConfigured(last.folder) THEN OneLayout
        ELSE /\ last.op = "exportItems"
             /\ ~last.ret
             /\ last.io = <<>>
             /\ Touched = {}

\* With the mode 'Per Item' and no file name in the store, two items were
\* written to files of their own.
C24_Witness ==
    /\ ExportItemsDone
    /\ last.op = "exportPerItem"
    /\ "filename" \notin DOMAIN plist
    /\ Stored("exportMode") = PerItemText
    /\ Len(last.items) = 2
    /\ Cardinality(Touched) = 2

(***************************************************************************)
(* The create modal (modals/CreateItemModal.ts): its form, buildItem,       *)
(* generateMarkdown and handleSubmit.  Of the seven item types the model    *)
(* has a task (which builds like a goal and a habit: no required field, a   *)
(* recurrence section), a reminder, an event and an appointment; of the     *)
(* form it has the fields that buildItem tests and the recurrence fields.   *)
(***************************************************************************)
ReminderItemType == <<"r", "e", "m", "i", "n", "d", "e", "r">>
EventItemType == <<"e", "v", "e", "n", "t">>
AppointmentItemType ==
    <<"a", "p", "p", "o", "i", "n", "t", "m", "e", "n", "t">>
ModalTypes == {TaskType, ReminderItemType, EventItemType, AppointmentItemType}
RecurringTypes == {TaskType}
Today == Date1
NineOClock == <<"0", "9", ":", "0", "0">>
PerDay == <<"D", "a", "y">>
PerWeek == <<"W", "e", "e", "k">>
EndNever == <<"N", "e", "v", "e", "r">>
EndAfter == <<"A", "f", "t", "e", "r">>
EndOnDate == <<"O", "n", " ", "D", "a", "t", "e">>
Monday == <<"M", "o", "n">>
AlarmEmoji == "alarm"

TitleNotice == "Please enter a title"
ReminderNotice == "Please set reminder date and time"
StartNotice == "Please set start date and time"
FolderNotice == "Elysium folder not configured. Please set it in plugin settings."

\* new CreateItemModal(app, settings, pluginVersion, initialType,
\* initialText) and open(): the field initializers, then the constructor.
CreateItemModal(settings, currentFile, initialType, initialText) ==
    [open |-> TRUE,
     settings |-> settings,
     currentFile |-> currentFile,
     initialType |-> initialType,
     itemType |-> IF Truthy(initialType) THEN initialType.v ELSE TaskType,
     title |-> trim(initialText),
     insertIntoNote |-> settings.insertMarkdownByDefault,
     dueDate |-> Today,
     scheduledStart |-> <<>>,
     startDate |-> Today,
     startTime |-> <<>>,
     endDate |-> Today,
     endTime |-> <<>>,
     reminderTime |-> <<>>,
     reminderDate |-> Today,
     repeatsEnabled |-> FALSE,
     repeatsCount |-> 1,
     repeatsPer |-> PerDay,
     repeatsWeekdays |-> <<>>,
     repeatsEndType |-> EndNever,
     repeatsEndCount |-> 10,
     repeatsEndDate |-> <<>>]

\* value || undefined of a form text
OrUndefined(text) == IF text = <<>> THEN Undef ELSE Str(text)
\* a || b of two form texts
OrElse(a, b) == IF a = <<>> THEN b ELSE a
DateTime(date, time) == date \o <<"T">> \o time \o <<":", "0", "0">>

\* BuildRepeats with the bug of passing the end fields of the form through
BuildRepeats_KeepEnds(m) ==
    IF m.repeatsEnabled
    THEN Obj([enabled |-> Bool(TRUE),
              count |-> Num(m.repeatsCount),
              per |-> Str(m.repeatsPer),
              weekdays |-> IF m.repeatsPer = PerWeek /\ Len(m.repeatsWeekdays) > 0
                           THEN Arr([i \in DOMAIN m.repeatsWeekdays |->
                                         Str(m.repeatsWeekdays[i])])
                           ELSE Undef,
              end_type |-> Str(m.repeatsEndType),
              end_count |-> Num(m.repeatsEndCount),
              end_date |-> Str(m.repeatsEndDate)])
    ELSE Undef

\* buildItem: const repeats = this.repeatsEnabled ? {...} : undefined
BuildRepeats(m) ==
    IF m.repeatsEnabled
    THEN Obj([enabled |-> Bool(TRUE),
              count |-> Num(m.repeatsCount),
              per |-> Str(m.repeatsPer),
              weekdays |-> IF m.repeatsPer = PerWeek /\ Len(m.repeatsWeekdays) > 0
                           THEN Arr([i \in DOMAIN m.repeatsWeekdays |->
                                         Str(m.repeatsWeekdays[i])])
                           ELSE Undef,
              end_type |-> Str(m.repeatsEndType),
              end_count |-> IF m.repeatsEndType = EndAfter
                            THEN Num(m.repeatsEndCount) ELSE Undef,
              end_date |-> IF m.repeatsEndType = EndOnDate
                           THEN Str(m.repeatsEndDate) ELSE Undef])
    ELSE Undef

\* buildItem: baseProps (the tags, categories, notes and steps of the form
\* are empty and so undefined)
BaseProps(m, clock) ==
    [id |-> Str(generateId(IdPrefix \o <<"_">> \o m.itemType, m.title, clock)),
     title |-> Str(trim(m.title)),
     x_obsidian |->
         Obj([source_file |-> IF Truthy(m.currentFile) THEN m.currentFile
                              ELSE Str(<<"u", "n", "k", "n", "o", "w", "n">>),
              folder_path |-> Undef])]

\* RequiredSet with the bug of asking for the date only
RequiredSet_DateOnly(date, time) == date # <<>>

\* !this.reminderDate || !this.reminderTime, !this.startDate || !this.startTime
RequiredSet(date, time) == date # <<>> /\ time # <<>>

\* buildItem: the item, or null after a notice
buildItem(m, clock) ==
    CASE m.itemType = TaskType ->
             [notice |-> <<>>,
              item |-> Obj([type |-> Str(TaskType),
                            status |-> Str(<<"t", "o", "d", "o">>),
                            due |-> OrUndefined(m.dueDate),
                            scheduled_start |->
                                IF m.scheduledStart = <<>> THEN Undef
                                ELSE Str(DateTime(m.scheduledStart, NineOClock)),
                            priority |-> Undef,
                            estimate_minutes |-> Undef,
                            repeats |-> BuildRepeats(m)]
                           @@ BaseProps(m, clock))]
      [] m.itemType = ReminderItemType ->
             IF ~RequiredSet(m.reminderDate, m.reminderTime)
             THEN [notice |-> <<ReminderNotice>>, item |-> Null]
             ELSE [notice |-> <<>>,
                   item |-> Obj([type |-> Str(ReminderItemType),
                                 time |-> Str(DateTime(m.reminderDate,
                                                       m.reminderTime))]
                                @@ BaseProps(m, clock))]
      [] m.itemType = EventItemType ->
             IF ~RequiredSet(m.startDate, m.startTime)
             THEN [notice |-> <<StartNotice>>, item |-> Null]
             ELSE [notice |-> <<>>,
                   item |-> Obj([type |-> Str(EventItemType),
                                 start |-> Str(DateTime(m.startDate, m.startTime)),
                                 end |-> Str(DateTime(OrElse(m.endDate, m.startDate),
                                                      OrElse(m.endTime, m.startTime))),
                                 timezone |-> Str(Timezone),
                                 location |-> Undef]
                                @@ BaseProps(m, clock))]
      [] m.itemType = AppointmentItemType ->
             IF ~RequiredSet(m.startDate, m.startTime)
             THEN [notice |-> <<StartNotice>>, item |-> Null]
             ELSE [notice |-> <<>>,
                   item |-> Obj([type |-> Str(AppointmentItemType),
                                 start |-> Str(DateTime(m.startDate, m.startTime)),
                                 end |-> Str(DateTime(OrElse(m.endDate, m.startDate),
                                                      OrElse(m.endTime, m.startTime))),
                                 attendees |-> Arr(<<>>),
                                 location |-> Undef]
                                @@ BaseProps(m, clock))]
      [] OTHER -> [notice |-> <<>>, item |-> Null]

\* event.start.split('T')[1]?.slice(0, 5) || ''
TimeOfDay(stamp) ==
    IF Len(Split(stamp, "T")) >= 2 THEN substring0(Split(stamp, "T")[2], 5)
    ELSE <<>>

\* reminder.time.replace('T', ' @ ').slice(0, -3)
ReminderDateTime(time) ==
    LET n == LeadCount(time, Range(time) \ {"T"})
        replaced == IF n = Len(time) THEN time
                    ELSE SubSeq(time, 1, n) \o <<" ", "@", " ">>
                             \o SubSeq(time, n + 2, Len(time))
    IN  SubSeq(replaced, 1, Len(replaced) - 3)

generateMarkdown(item) ==
    LET type == GetProp(item, "type").v
        title == GetProp(item, "title").v
    IN  CASE type = TaskType ->
                 TodoBox \o title
                     \o (IF Truthy(GetProp(item, "due"))
                         THEN <<" ", CalendarEmoji, " ">> \o GetProp(item, "due").v
                         ELSE <<>>)
                     \o (IF Truthy(GetProp(item, "scheduled_start"))
                         THEN <<" ", HourglassEmoji, " ">>
                                  \o Split(GetProp(item, "scheduled_start").v, "T")[1]
                         ELSE <<>>)
          [] type = ReminderItemType ->
                 <<"-", " ", AlarmEmoji, " ">> \o title \o <<" ", "@", " ">>
                     \o ReminderDateTime(GetProp(item, "time").v)
          [] type \in {EventItemType, AppointmentItemType} ->
                 <<"-", " ">> \o TimeOfDay(GetProp(item, "start").v)
                     \o <<" ", "-", " ">> \o TimeOfDay(GetProp(item, "end").v)
                     \o <<" ">> \o title
          [] OTHER -> <<"-", " ">> \o title

\* What a run of handleSubmit did: the notices it showed, the item it built,
\* the exportItem call it made (NoCall when it made none), the text it
\* inserted in the note, whether it closed the modal, its steps in order,
\* and the file system it left.
SubmitRun(notices, item, export, inserted, closed, steps, fsDirs, fsFiles) ==
    [notices |-> notices, item |-> item, export |-> export,
     inserted |-> inserted, closed |-> closed, steps |-> steps,
     dirs |-> fsDirs, files |-> fsFiles]

\* AfterExport with the bug of inserting and closing whatever exportItem
\* returned
AfterExport_Always(m, item, o, editorActive) ==
    SubmitRun(<<>>, item, o,
              IF m.insertIntoNote /\ Truthy(m.currentFile) /\ editorActive
              THEN <<generateMarkdown(item)>> ELSE <<>>,
              TRUE,
              <<"buildItem", "exportItem">>
                  \o (IF m.insertIntoNote /\ Truthy(m.currentFile)
                      THEN <<"insertMarkdown">> ELSE <<>>)
                  \o <<"close">>,
              o.dirs, o.files)

\* handleSubmit from the result of exportItem on: if (!success) return; the
\* insertion when it is asked for and there is a file; close().
\* insertMarkdown does nothing without an active markdown editor.
AfterExport(m, item, o, editorActive) ==
    IF ~o.ret
    THEN SubmitRun(<<>>, item, o, <<>>, FALSE, <<"buildItem", "exportItem">>,
                   o.dirs, o.files)
    ELSE SubmitRun(<<>>, item, o,
                   IF m.insertIntoNote /\ Truthy(m.currentFile) /\ editorActive
                   THEN <<generateMarkdown(item)>> ELSE <<>>,
                   TRUE,
                   <<"buildItem", "exportItem">>
                       \o (IF m.insertIntoNote /\ Truthy(m.currentFile)
                           THEN <<"insertMarkdown">> ELSE <<>>)
                       \o <<"close">>,
                   o.dirs, o.files)

\* TitleBlank with the bug of testing the untrimmed title
TitleBlank_Untrimmed(title) == title = <<>>

\* !this.title.trim()
TitleBlank(title) == trim(title) = <<>>

handleSubmit(m, fs, editorActive) ==
    IF TitleBlank(m.title)
    THEN SubmitRun(<<TitleNotice>>, Null, NoCall, <<>>, FALSE, <<>>,
                   fs.dirs, fs.files)
    ELSE IF buildItem(m, fs.clock).item = Null
    THEN SubmitRun(buildItem(m, fs.clock).notice, Null, NoCall, <<>>, FALSE,
                   <<"buildItem">>, fs.dirs, fs.files)
    ELSE IF ~FolderConfigured(m.settings.elysiumFolderPath)
    THEN SubmitRun(<<FolderNotice>>, buildItem(m, fs.clock).item, NoCall, <<>>,
                   FALSE, <<"buildItem">>, fs.dirs, fs.files)
    ELSE AfterExport(m, buildItem(m, fs.clock).item,
                     exportItem(buildItem(m, fs.clock).item,
                                m.settings.elysiumFolderPath, Timezone, fs),
                     editorActive)

(***************************************************************************)
(* The create modal in use: the user edits the fields the form shows,       *)
(* presses Create or Cancel, and the file system may fail the export.       *)
(***************************************************************************)
ModalSettings ==
    {[elysiumFolderPath |-> folder, insertMarkdownByDefault |-> FALSE] :
         folder \in ApiFolders}
CurrentFiles == {Null, Str(NotePath)}
ModalFaults == {"none", "write"}

\* the values the user gives to a field
FieldValues ==
    [itemType |-> ModalTypes,
     title |-> {<<>>, <<" ">>, <<"T">>},
     insertIntoNote |-> BOOLEAN,
     reminderDate |-> {<<>>, Today},
     reminderTime |-> {<<>>, NineOClock},
     startDate |-> {<<>>, Today},
     startTime |-> {<<>>, NineOClock},
     repeatsEnabled |-> BOOLEAN,
     repeatsPer |-> {PerDay, PerWeek},
     repeatsEndType |-> {EndNever, EndAfter, EndOnDate},
     repeatsEndDate |-> {<<>>, Date2}]

\* the fields that buildForm put on screen for the modal's type, and the
\* recurrence options that are displayed
Shown(m, field) ==
    CASE field = "itemType" -> ~Truthy(m.initialType)
      [] field \in {"title", "insertIntoNote"} -> TRUE
      [] field \in {"reminderDate", "reminderTime"} ->
             m.itemType = ReminderItemType
      [] field \in {"startDate", "startTime"} ->
             m.itemType \in {EventItemType, AppointmentItemType}
      [] field = "repeatsEnabled" -> m.itemType \in RecurringTypes
      [] field \in {"repeatsPer", "repeatsEndType"} ->
             m.itemType \in RecurringTypes /\ m.repeatsEnabled
      [] field = "repeatsEndDate" ->
             /\ m.itemType \in RecurringTypes
             /\ m.repeatsEnabled
             /\ m.repeatsEndType = EndOnDate
      [] OTHER -> FALSE

ModalFrame == UNCHANGED <<dirs, files, plist, pending, last, now, vault,
                          autoExport, runs, history, rt, fn, editor>>

InitModal ==
    /\ dirs = {}
    /\ files = <<>>
    /\ plist = <<>>
    /\ pending = NoCall
    /\ last = NoCall
    /\ now = 0
    /\ vault = <<>>
    /\ autoExport = FALSE
    /\ runs = <<>>
    /\ history = <<>>
    /\ rt = NoCall
    /\ fn = NoCall
    /\ modal \in {CreateItemModal(settings, currentFile, Null, <<>>) :
                      settings \in ModalSettings, currentFile \in CurrentFiles}
    /\ editor = <<>>

\* the onChange handler of a field
SetField(field, value) ==
    /\ modal.open
    /\ last = NoCall
    /\ Shown(modal, field)
    /\ modal' = [modal EXCEPT ![field] = value]
    /\ ModalFrame

\* the click handler of a weekday button
ToggleWeekday(day) ==
    /\ modal.open
    /\ last = NoCall
    /\ modal.itemType \in RecurringTypes
    /\ modal.repeatsEnabled
    /\ modal.repeatsPer = PerWeek
    /\ modal' = [modal EXCEPT !.repeatsWeekdays =
                     IF day \in Range(@) THEN Without(@, {day})
                     ELSE Append(@, day)]
    /\ ModalFrame

\* the Create button: handleSubmit, from its first statement to its return
Submit(fault, editorActive) ==
    /\ modal.open
    /\ last = NoCall
    /\ \E run \in {handleSubmit(modal, Fs(fault), editorActive)} :
           /\ last' = [op |-> "handleSubmit", form |-> modal, before |-> files]
                          @@ run
           /\ modal' = [modal EXCEPT !.open = ~run.closed]
           /\ editor' = editor \o run.inserted
           /\ dirs' = run.dirs
           /\ files' = run.files
    /\ UNCHANGED <<plist, pending, now, vault, autoExport, runs, history, rt, fn>>

\* the Cancel button
Cancel ==
    /\ modal.open
    /\ last = NoCall
    /\ modal' = [modal EXCEPT !.open = FALSE]
    /\ ModalFrame

NextModal ==
    \/ /\ modal.open
       /\ last = NoCall
       /\ \E field \in DOMAIN FieldValues :
              \E value \in FieldValues[field] : SetField(field, value)
    \/ ToggleWeekday(Monday)
    \/ \E fault \in ModalFaults, editorActive \in BOOLEAN :
           Submit(fault, editorActive)
    \/ Cancel
    \/ Deliver

SpecModal == InitModal /\ [][NextModal]_vars

(***************************************************************************)
(* The create flow.                                                         *)
(***************************************************************************)
SubmitDone == last # NoCall /\ last.op = "handleSubmit"
\* the form lacks a field its type requires
LacksRequired(form) ==
    \/ \A i \in DOMAIN form.title : form.title[i] \in WhiteSpace
    \/ /\ form.itemType = ReminderItemType
       /\ (form.reminderDate = <<>> \/ form.reminderTime = <<>>)
    \/ /\ form.itemType \in {EventItemType, AppointmentItemType}
       /\ (form.startDate = <<>> \/ form.startTime = <<>>)
NothingWritten == last.files = last.before /\ files = last.before

\* C25: when the form lacks a required field of its type (a blank title for
\* any type, a reminder without date or time, an event or an appointment
\* without start date or start time), the submit shows a notice, builds no
\* item, does not call exportItem and writes no file.
C25_ValidationGap ==
    (SubmitDone /\ LacksRequired(last.form)) =>
        /\ last.notices # <<>>
        /\ last.item = Null
        /\ last.export = NoCall
        /\ "exportItem" \notin Range(last.steps)
        /\ NothingWritten

\* A reminder with a title and a date but no time, submitted with a folder
\* configured: the notice about the reminder, and nothing exported.
C25_Witness ==
    /\ SubmitDone
    /\ last.form.itemType = ReminderItemType
    /\ last.form.title = <<"T">>
    /\ last.form.reminderDate = Today
    /\ last.form.reminderTime = <<>>
    /\ FolderConfigured(last.form.settings.elysiumFolderPath)
    /\ last.notices = <<ReminderNotice>>
    /\ last.export = NoCall

\* the repeats value of the item that a submit built
BuiltRepeats == GetProp(last.item, "repeats")
\* values in the form that its recurrence settings make irrelevant
LeftOver(form) ==
    \/ form.repeatsPer # PerWeek /\ form.repeatsWeekdays # <<>>
    \/ form.repeatsEndType # EndOnDate /\ form.repeatsEndDate # <<>>
    \/ ~form.repeatsEnabled /\ form.repeatsEndType # EndNever

\* C26: in the repeats value built for an item, end_count is set only when
\* end_type is After, end_date only when end_type is On Date, and weekdays
\* only when per is Week; values left in the form that the settings make
\* irrelevant are dropped without a notice, and repeats is absent when
\* recurrence is not enabled.
C26_RepeatsInvariant ==
    (SubmitDone /\ ~TitleBlank(last.form.title)
                /\ last.form.itemType \in RecurringTypes) =>
        /\ last.item # Null
        /\ last.notices \in {<<>>, <<FolderNotice>>}
        /\ ~last.form.repeatsEnabled => BuiltRepeats = Undef
        /\ last.form.repeatsEnabled =>
               /\ BuiltRepeats.t = "map"
               /\ GetProp(BuiltRepeats, "end_type") = Str(last.form.repeatsEndType)
               /\ GetProp(BuiltRepeats, "per") = Str(last.form.repeatsPer)
               /\ GetProp(BuiltRepeats, "end_count") # Undef =>
                      GetProp(BuiltRepeats, "end_type") = Str(EndAfter)
               /\ GetProp(BuiltRepeats, "end_date") # Undef =>
                      GetProp(BuiltRepeats, "end_type") = Str(EndOnDate)
               /\ GetProp(BuiltRepeats, "weekdays") # Undef =>
                      GetProp(BuiltRepeats, "per") = Str(PerWeek)

\* A task that repeats by the day and never ends, with a weekday and an end
\* date left in the form: the repeats value has neither.
C26_Witness ==
    /\ SubmitDone
    /\ last.form.repeatsEnabled
    /\ last.form.repeatsPer = PerDay
    /\ last.form.repeatsWeekdays = <<Monday>>
    /\ last.form.repeatsEndType = EndNever
    /\ last.form.repeatsEndDate = Date2
    /\ LeftOver(last.form)
    /\ last.item # Null
    /\ GetProp(BuiltRepeats, "weekdays") = Undef
    /\ GetProp(BuiltRepeats, "end_date") = Undef
    /\ GetProp(BuiltRepeats, "end_count") = Undef
    /\ last.export # NoCall

\* the position of a step in the run, 0 when the run did not take it
StepAt(name) ==
    IF name \in Range(last.steps)
    THEN CHOOSE i \in DOMAIN last.steps : last.steps[i] = name
    ELSE 0
ExportSucceeded == last.export # NoCall /\ last.export.ret
SubmitFailed ==
    \/ LacksRequired(last.form)
    \/ last.item = Null
    \/ ~FolderConfigured(last.form.settings.elysiumFolderPath)
    \/ ~ExportSucceeded

\* C30: in every run of the create modal's submit, markdown is inserted in
\* the note and the modal is closed only after exportItem has returned
\* success; after a blank title, a rejected item, a missing folder or a
\* failed export the modal stays open, nothing is inserted in the note and
\* the form is as it was, ready for another submit.
C30_CreateOrdering ==
    SubmitDone =>
        /\ (last.inserted # <<>> \/ last.closed \/ StepAt("insertMarkdown") > 0
                \/ StepAt("close") > 0) =>
               /\ ExportSucceeded
               /\ StepAt("exportItem") > 0
               /\ StepAt("insertMarkdown") > 0 =>
                      StepAt("exportItem") < StepAt("insertMarkdown")
               /\ StepAt("exportItem") < StepAt("close")
        /\ SubmitFailed =>
               /\ modal.open
               /\ ~last.closed
               /\ last.inserted = <<>>
               /\ editor = <<>>
               /\ modal = last.form
        /\ ~SubmitFailed => last.closed /\ ~modal.open

\* The export failed on its write although insertion was asked for and the
\* note's editor was active: the modal is open with its form unchanged and
\* the note has nothing new.
C30_Witness ==
    /\ SubmitDone
    /\ last.export # NoCall
    /\ "write" \in last.export.failed
    /\ ~last.export.ret
    /\ last.form.insertIntoNote
    /\ Truthy(last.form.currentFile)
    /\ modal.open
    /\ modal = last.form
    /\ editor = <<>>

(***************************************************************************)
(* The claims about repeated single-file export.  ItemsAt is the item list  *)
(* of a destination file as a reader decodes it; in the state the second    *)
(* of two exports in a row leaves, last.first is the record of the first    *)
(* and last.before the files the first one left.                            *)
(***************************************************************************)
Decodable(fsFiles, path) ==
    path \in DOMAIN fsFiles => ~yamlLoadThrows(fsFiles[path])
ItemsAt(fsFiles, path) ==
    IF path \in DOMAIN fsFiles /\ Decodable(fsFiles, path)
    THEN Elements(ExistingItemsOf(yamlLoad(fsFiles[path])))
    ELSE <<>>
IdsAt(fsFiles, path) == Ids(ItemsAt(fsFiles, path))
TwiceDone == last # NoCall /\ SingleDone /\ "first" \in DOMAIN last
TwiceWrote == TwiceDone /\ last.ret
\* the export took the prior list from the file: neither the read nor the
\* decoding threw
ReadPrior(call) == "decode" \notin call.failed

LinkDone == rt.op = "linked"
Rewritten == yamlLoadText(rt.out.lines)
ReadItems == Elements(GetProp(rt.doc, "items"))
RewrittenItems == Elements(GetProp(Rewritten.doc, "items"))
WithId(list, itemId) == {i \in DOMAIN list : ItemId(list[i]) = Str(itemId)}
FirstWithId(list, itemId) ==
    IF WithId(list, itemId) = {} THEN 0
    ELSE CHOOSE i \in WithId(list, itemId) :
             \A j \in WithId(list, itemId) : i <= j
FieldsOf(v) == IF v.t = "map" THEN DOMAIN v.f ELSE {}
SameButLink(old, new) ==
    \A k \in (FieldsOf(old) \cup FieldsOf(new)) \ {"x_elysium"} :
        GetProp(new, k) = GetProp(old, k)
\* no item has the id, or the file has no items: neither written nor true
NoMatchNoWrite ==
    (LinkDone /\ WithId(ReadItems, rt.itemId) = {}) =>
        ~rt.out.written /\ ~rt.out.ret

\* C29, as stated: the rewritten file decodes to the items of the file that
\* was read, but for x_elysium of the first item with the given id; with no
\* item of that id nothing is written and the result is false.
C29_LinkFrame ==
    /\ (LinkDone /\ rt.out.written) =>
           /\ Rewritten.ok
           /\ Len(RewrittenItems) = Len(ReadItems)
           /\ \A j \in DOMAIN ReadItems :
                  IF j = FirstWithId(ReadItems, rt.itemId)
                  THEN SameButLink(ReadItems[j], RewrittenItems[j])
                  ELSE RewrittenItems[j] = ReadItems[j]
    /\ NoMatchNoWrite

\* A file of two items free of text the serializer changes: the second is
\* linked, the first is rewritten as it was.
LinkClean ==
    /\ LinkDone /\ rt.out.written
    /\ Len(ReadItems) = 2
    /\ FirstWithId(ReadItems, rt.itemId) = 2
    /\ Rewritten.ok
    /\ RewrittenItems[1] = ReadItems[1]
    /\ SameButLink(ReadItems[2], RewrittenItems[2])
    /\ Truthy(GetProp(RewrittenItems[2], "x_elysium"))

====
